---- MODULE Spec2Model ----
(***************************************************************************)
(* Model of the control-plane reconciler of the CrowdSec Cloudflare worker *)
(* bouncer: the orchestrator loop of cmd/root.go (Execute) and the         *)
(* per-account CloudflareAccountManager of pkg/cloudflare/cloudflare.go    *)
(* (ProcessDeletedDecisions, ProcessNewDecisions,                          *)
(* CommitIPRangesIfChanged), run against a Cloudflare KV namespace whose   *)
(* bulk calls may fail.                                                    *)
(***************************************************************************)
EXTENDS Integers, Sequences, FiniteSets, TLC

(***************************************************************************)
(* Bounds of the model.                                                    *)
(***************************************************************************)
\* most decisions, new and deleted together, in one stream item
MaxDecisions == 3
\* number of API calls that fail in one run
MaxFaults == 1

\* how far from 0, 10000 and 20000 the lengths of the staged lists go
MaxSlack == 20

\* how many times the secret of one widget is rotated
MaxRotations == 2

\* how many decisions one batch given to a normalizer holds
MaxRaw == 2

\* how many zones the account of a configuration file declares
MaxZones == 2

\* how many keys one bulk read of the worker asks for
MaxKeys == 201

\* how many decisions an item sent to a manager with a filled index holds
MaxFrame == 2

\* how far the gauge active_decisions is followed away from the number of
\* entries
MaxDrift == 2

(***************************************************************************)
(* The universe of decisions the local API emits.                          *)
(***************************************************************************)
Types == {"ban", "captcha"}

\* CIDR values of range decisions, in byte order (the order encoding/json
\* gives to map keys)
RangeOrder == <<"10.0.0.0/8", "192.168.0.0/16">>

RangeValues == {RangeOrder[i] : i \in 1..Len(RangeOrder)}

\* one decision: models.Decision restricted to the fields the reconciler
\* reads for the index and the KV
Decision(scope, type, value) == [scope |-> scope, type |-> type, value |-> value]

\* the decisions the local API sends in the stream
StreamDecisions ==
    {Decision("Ip", t, "1.2.3.4") : t \in Types}
        \cup {Decision("Range", t, "10.0.0.0/8") : t \in Types}

\* strings.ToLower on the strings of the universe
ToLower(s) ==
    CASE s = "Ip"    -> "ip"
      [] s = "Range" -> "range"
      [] s = "CN"    -> "cn"
      [] s = "Ban"   -> "ban"
      [] s = "Country"  -> "country"
      [] s = "Username" -> "username"
      [] OTHER       -> s

RECURSIVE SeqsUpTo(_, _)
SeqsUpTo(S, n) ==
    IF n = 0 THEN {<<>>}
    ELSE LET shorter == SeqsUpTo(S, n - 1)
         IN  shorter \cup {Append(s, d) : s \in {q \in shorter : Len(q) = n - 1}, d \in S}

\* the items the stream can deliver: the response of one poll, with its new
\* and its deleted decisions
StreamItems ==
    LET batches == SeqsUpTo(StreamDecisions, MaxDecisions)
    IN  {[new |-> n, deleted |-> d] :
            <<n, d>> \in {nd \in batches \X batches :
                             Len(nd[1]) + Len(nd[2]) <= MaxDecisions}}

(***************************************************************************)
(* Go maps as functions with a varying domain.                             *)
(***************************************************************************)
EmptyMap == [k \in {} |-> "ban"]

MapPut(m, k, v) == [x \in DOMAIN m \cup {k} |-> IF x = k THEN v ELSE m[x]]

MapDelete(m, k) == [x \in DOMAIN m \ {k} |-> m[x]]

(***************************************************************************)
(* Cloudflare constants.                                                   *)
(***************************************************************************)
IpRangeKeyName == "IP_RANGES"

\* bulk calls carry at most this many entries
BulkLimit == 10000

Min(a, b) == IF a > b THEN b ELSE a

(***************************************************************************)
(* json.Marshal of a map[string]string: an object whose keys are sorted.   *)
(***************************************************************************)
RECURSIVE MarshalFrom(_, _, _)
MarshalFrom(m, i, first) ==
    IF i > Len(RangeOrder) THEN ""
    ELSE LET k == RangeOrder[i]
         IN  IF k \in DOMAIN m
             THEN (IF first THEN "" ELSE ",")
                      \o "\"" \o k \o "\":\"" \o m[k] \o "\""
                      \o MarshalFrom(m, i + 1, FALSE)
             ELSE MarshalFrom(m, i + 1, first)

jsonMarshal(m) == "{" \o MarshalFrom(m, 1, TRUE) \o "}"

RangeMaps == UNION {[S -> Types] : S \in SUBSET RangeValues}

\* json.Unmarshal of an IP_RANGES document into a map[string]string
jsonUnmarshal(doc) == CHOOSE m \in RangeMaps : jsonMarshal(m) = doc

(***************************************************************************)
(* The Cloudflare KV namespace of one account, as the bulk endpoints       *)
(* change it.  A call that fails leaves the namespace as it was.           *)
(***************************************************************************)
RECURSIVE PutAll(_, _, _)
PutAll(kv, pairs, i) ==
    IF i > Len(pairs) THEN kv
    ELSE PutAll(MapPut(kv, pairs[i].Key, pairs[i].Value), pairs, i + 1)

WriteWorkersKVEntries(kv, pairs, ok) == IF ok THEN PutAll(kv, pairs, 1) ELSE kv

DeleteWorkersKVEntries(kv, keys, ok) ==
    IF ok THEN [k \in DOMAIN kv \ {keys[i] : i \in 1..Len(keys)} |-> kv[k]]
    ELSE kv

\* what the API saw: one record per bulk call
ApiCall(op, entries, ok) == [op |-> op, entries |-> entries, ok |-> ok]

KeyOnly(keys) == [i \in 1..Len(keys) |-> [Key |-> keys[i], Value |-> ""]]

(***************************************************************************)
(* Splitting of a staged list into bulk calls.                             *)
(***************************************************************************)
NumBatches(n) == (n + BulkLimit - 1) \div BulkLimit

\* the bulk calls a staged list of n entries is split into
BatchIds(n) == 1..NumBatches(n)

BatchOf(staged, b) ==
    SubSeq(staged, (b - 1) * BulkLimit + 1, Min(b * BulkLimit, Len(staged)))

RECURSIVE RunBatches(_, _, _, _, _)
\* issues the bulk calls 1..NumBatches of one errgroup; failed is the set of
\* calls that return an error
RunBatches(op, staged, b, failed, acc) ==
    IF b > NumBatches(Len(staged)) THEN acc
    ELSE LET part == BatchOf(staged, b)
             ok   == b \notin failed
             kv2  == IF op = "delete"
                     THEN DeleteWorkersKVEntries(acc.kv, [i \in 1..Len(part) |-> part[i].Key], ok)
                     ELSE WriteWorkersKVEntries(acc.kv, part, ok)
         IN  RunBatches(op, staged, b + 1, failed,
                        [kv |-> kv2, calls |-> Append(acc.calls, ApiCall(op, part, ok))])

\* a variant of the errgroup's Wait that reports no error
WaitReturnsNil(failed, n) == FALSE

\* deleterGrp.Wait() / writerErrGroup.Wait(): the error of a failed bulk call
WaitFails(failed, n) == failed \cap BatchIds(n) # {}

(***************************************************************************)
(* CommitIPRangesIfChanged                                                 *)
(***************************************************************************)
CommitIPRangesIfChanged(m, kv, calls, ok) ==
    LET ipRangeContent == jsonMarshal(m.ActionByIPRange)
        m1 == [m EXCEPT !.hasIPRangeKV = TRUE]
    IN  IF ipRangeContent # m.ipRangeKVPair
        THEN LET pair == <<[Key |-> IpRangeKeyName, Value |-> ipRangeContent]>>
             IN  [m     |-> [m1 EXCEPT !.ipRangeKVPair = ipRangeContent],
                  kv    |-> WriteWorkersKVEntries(kv, pair, ok),
                  calls |-> Append(calls, ApiCall("write", pair, ok)),
                  err   |-> ~ok]
        ELSE [m |-> m1, kv |-> kv, calls |-> calls, err |-> FALSE]

(***************************************************************************)
(* The copy of the index that both operations stage their changes in.  The *)
(* index maps a decision value to a pair {Key: value, Value: type}.        *)
(***************************************************************************)
KVPairs(index) == {[Key |-> k, Value |-> index[k]] : k \in DOMAIN index}

\* a variant of the copy keyed by the type of the pair
CopyKeyedByValue(index) ==
    [t \in {kvPair.Value : kvPair \in KVPairs(index)} |->
        (CHOOSE kvPair \in KVPairs(index) : kvPair.Value = t).Value]

\* for _, kvPair := range m.KVPairByDecisionValue { new[kvPair.Key] = kvPair }
CopyKVPairs(index) ==
    [k \in {kvPair.Key : kvPair \in KVPairs(index)} |->
        (CHOOSE kvPair \in KVPairs(index) : kvPair.Key = k).Value]

(***************************************************************************)
(* ProcessDeletedDecisions                                                 *)
(***************************************************************************)
\* a variant that honours a deleted ip/as/country decision whatever its type
StringDeletionMatchesAnyType(index, decision) == decision.value \in DOMAIN index

\* a deleted ip/as/country decision is honoured when the index holds its
\* value with the same type
StringDeletionMatches(index, decision) ==
    /\ decision.value \in DOMAIN index
    /\ decision.type = index[decision.value]

\* a deleted range decision is honoured when the range is recorded
RangeDeletionMatches(ranges, decision) == decision.value \in DOMAIN ranges

RECURSIVE DeletedLoop(_, _, _, _)
DeletedLoop(decisions, i, index, st) ==
    IF i > Len(decisions) THEN st
    ELSE LET decision == decisions[i]
         IN  IF decision.scope = "range"
             THEN DeletedLoop(decisions, i + 1, index,
                    IF RangeDeletionMatches(st.ActionByIPRange, decision)
                    THEN [st EXCEPT !.ActionByIPRange = MapDelete(@, decision.value)]
                    ELSE st)
             ELSE DeletedLoop(decisions, i + 1, index,
                    IF StringDeletionMatches(index, decision)
                    THEN [st EXCEPT !.keysToDelete = Append(@, decision.value),
                                    !.newKVPairByValue = MapDelete(@, decision.value)]
                    ELSE st)

DoProcessDeletedDecisions(m, kv, decisions, failed, rangeOk) ==
    LET st == DeletedLoop(decisions, 1, m.KVPairByDecisionValue,
                          [keysToDelete     |-> <<>>,
                           newKVPairByValue |-> CopyKVPairs(m.KVPairByDecisionValue),
                           ActionByIPRange  |-> m.ActionByIPRange])
        m1 == [m EXCEPT !.ActionByIPRange = st.ActionByIPRange]
    IN  IF Len(st.keysToDelete) = 0
        THEN [m |-> m1, kv |-> kv, calls |-> <<>>, err |-> FALSE]
        ELSE LET run == RunBatches("delete", KeyOnly(st.keysToDelete), 1, failed,
                                   [kv |-> kv, calls |-> <<>>])
             IN  IF WaitFails(failed, Len(st.keysToDelete))
                 THEN [m |-> m1, kv |-> run.kv, calls |-> run.calls, err |-> TRUE]
                 ELSE CommitIPRangesIfChanged(
                          [m1 EXCEPT !.KVPairByDecisionValue = st.newKVPairByValue],
                          run.kv, run.calls, rangeOk)

\* the calls of TotalActiveDecisions...Dec() in the loop over the deleted
\* decisions; ranges is m.ActionByIPRange as the loop goes
RECURSIVE DeletedLoopDecs(_, _, _, _)
DeletedLoopDecs(decisions, i, index, ranges) ==
    IF i > Len(decisions) THEN 0
    ELSE LET decision == decisions[i]
         IN  IF decision.scope = "range"
             THEN IF RangeDeletionMatches(ranges, decision)
                  THEN 1 + DeletedLoopDecs(decisions, i + 1, index,
                                           MapDelete(ranges, decision.value))
                  ELSE DeletedLoopDecs(decisions, i + 1, index, ranges)
             ELSE (IF StringDeletionMatches(index, decision) THEN 1 ELSE 0)
                  + DeletedLoopDecs(decisions, i + 1, index, ranges)

(***************************************************************************)
(* ProcessNewDecisions                                                     *)
(***************************************************************************)
\* index of the first staged pair with this key, 0 when there is none
StagedIndex(keysToWrite, key) ==
    IF \E idx \in 1..Len(keysToWrite) : keysToWrite[idx].Key = key
    THEN CHOOSE idx \in 1..Len(keysToWrite) :
            /\ keysToWrite[idx].Key = key
            /\ \A j \in 1..(idx - 1) : keysToWrite[j].Key # key
    ELSE 0

\* one ip/as/country decision of the batch
StageStringDecision(st, decision) ==
    LET pair == [Key |-> decision.value, Value |-> decision.type]
        add  == [st EXCEPT !.keysToWrite = Append(@, pair),
                           !.newKVPairByValue = MapPut(@, decision.value, decision.type)]
    IN  IF decision.value \in DOMAIN st.newKVPairByValue
        THEN IF decision.type # st.newKVPairByValue[decision.value]
             THEN LET idx == StagedIndex(st.keysToWrite, decision.value)
                  IN  IF idx # 0
                      THEN [st EXCEPT !.keysToWrite[idx].Value = decision.type]
                      ELSE add
             ELSE st
        ELSE add

\* one range decision of the batch
StageRangeDecision(st, decision) ==
    [st EXCEPT !.ActionByIPRange = MapPut(@, decision.value, decision.type)]

RECURSIVE NewLoop(_, _, _)
NewLoop(decisions, i, st) ==
    IF i > Len(decisions) THEN st
    ELSE NewLoop(decisions, i + 1,
                 IF decisions[i].scope = "range"
                 THEN StageRangeDecision(st, decisions[i])
                 ELSE StageStringDecision(st, decisions[i]))

\* the calls of TotalActiveDecisions...Inc() in the loop over the new
\* decisions: for a range that m.ActionByIPRange does not hold, and for an
\* ip/as/country value that newKVPairByValue does not hold
RECURSIVE NewLoopIncs(_, _, _)
NewLoopIncs(decisions, i, st) ==
    IF i > Len(decisions) THEN 0
    ELSE LET decision == decisions[i]
         IN  IF decision.scope = "range"
             THEN (IF decision.value \in DOMAIN st.ActionByIPRange THEN 0 ELSE 1)
                  + NewLoopIncs(decisions, i + 1, StageRangeDecision(st, decision))
             ELSE (IF decision.value \in DOMAIN st.newKVPairByValue THEN 0 ELSE 1)
                  + NewLoopIncs(decisions, i + 1, StageStringDecision(st, decision))

DoProcessNewDecisions(m, kv, decisions, failed, rangeOk) ==
    LET st == NewLoop(decisions, 1,
                      [keysToWrite      |-> <<>>,
                       newKVPairByValue |-> CopyKVPairs(m.KVPairByDecisionValue),
                       ActionByIPRange  |-> m.ActionByIPRange])
        m1 == [m EXCEPT !.ActionByIPRange = st.ActionByIPRange]
    IN  IF Len(st.keysToWrite) = 0
        THEN CommitIPRangesIfChanged(m1, kv, <<>>, rangeOk)
        ELSE LET run == RunBatches("write", st.keysToWrite, 1, failed,
                                   [kv |-> kv, calls |-> <<>>])
             IN  IF WaitFails(failed, Len(st.keysToWrite))
                 THEN [m |-> m1, kv |-> run.kv, calls |-> run.calls, err |-> TRUE]
                 ELSE CommitIPRangesIfChanged(
                          [m1 EXCEPT !.KVPairByDecisionValue = st.newKVPairByValue],
                          run.kv, run.calls, rangeOk)

(***************************************************************************)
(* The orchestrator: the stream loop of Execute.                           *)
(***************************************************************************)
normalizeDecisions(decisions) ==
    [i \in 1..Len(decisions) |->
        [scope |-> ToLower(decisions[i].scope),
         value |-> ToLower(decisions[i].value),
         type  |-> ToLower(decisions[i].type)]]

\* a variant of the goroutine that processes the new decisions first
ManagerStepsSwapped == <<"new", "deleted">>

\* the steps of the goroutine the orchestrator starts for one manager
ManagerSteps == <<"deleted", "new">>

Idle == 0

Done == Len(ManagerSteps) + 1

\* Execute has returned from the stream loop
Returned == Done + 1

\* the manager as NewCloudflareManager builds it
NewCloudflareManager ==
    [KVPairByDecisionValue |-> EmptyMap,
     ActionByIPRange       |-> EmptyMap,
     ipRangeKVPair         |-> "{}",
     hasIPRangeKV          |-> FALSE]

(***************************************************************************)
(* The edge resources of one account, and what CleanUpExistingWorkers and  *)
(* DeployInfra do to them, one step at a time.  A resource is known by the *)
(* name the code matches on; "other" stands for what does not belong to    *)
(* the bouncer.                                                            *)
(***************************************************************************)
WidgetName == "crowdsec-cloudflare-worker-bouncer-widget"

\* m.Worker.ScriptName, m.Worker.KVNameSpaceName, m.Worker.D1DBName
ScriptName == "script"

KVNameSpaceName == "kvns"

D1DBName == "d1db"

Foreign == "other"

\* m.AccountCfg.ZoneConfigs, each zone with one route to protect and with
\* Turnstile enabled
ZoneConfigs == <<"z1", "z2">>

Zones == {ZoneConfigs[i] : i \in 1..Len(ZoneConfigs)}

\* a zone of the account that the configuration does not name
OtherZone == "zx"

Widget(name, domain) == [name |-> name, domain |-> domain]

Route(zone, script) == [zone |-> zone, script |-> script]

\* what an account holds that is not the bouncer's
ForeignCloud ==
    [widgets    |-> {Widget(Foreign, ZoneConfigs[1])},
     routes     |-> {Route(ZoneConfigs[1], Foreign)},
     scripts    |-> {Foreign},
     namespaces |-> {Foreign},
     dbs        |-> {Foreign}]

BouncerWidgets == {Widget(WidgetName, z) : z \in Zones}

BouncerRoutes == {Route(z, ScriptName) : z \in Zones \cup {OtherZone}}

\* every state an earlier run of the bouncer, ended in any way, may have
\* left the account in
Clouds ==
    {[widgets    |-> ForeignCloud.widgets \cup w,
      routes     |-> ForeignCloud.routes \cup r,
      scripts    |-> ForeignCloud.scripts \cup s,
      namespaces |-> ForeignCloud.namespaces \cup n,
      dbs        |-> ForeignCloud.dbs \cup d] :
        w \in SUBSET BouncerWidgets, r \in SUBSET BouncerRoutes,
        s \in SUBSET {ScriptName}, n \in SUBSET {KVNameSpaceName},
        d \in SUBSET {D1DBName}}

\* everything the bouncer deploys is in place
DeployedCloud ==
    [widgets    |-> ForeignCloud.widgets \cup BouncerWidgets,
     routes     |-> ForeignCloud.routes \cup {Route(z, ScriptName) : z \in Zones},
     scripts    |-> ForeignCloud.scripts \cup {ScriptName},
     namespaces |-> ForeignCloud.namespaces \cup {KVNameSpaceName},
     dbs        |-> ForeignCloud.dbs \cup {D1DBName}]

\* one call of the Cloudflare API (or of the operating system, to read the
\* ban template) and how it ended: "ok", "error" or "notfound"
\* (*cf.NotFoundError)
Call(api, res) == [api |-> api, res |-> res]

\* listing one kind of resource and deleting the matches, up to the first
\* call that fails: done is the set of matches deleted
ListAndDelete(listApi, deleteApi, targets, listOk, done) ==
    [calls   |-> <<Call(listApi, IF listOk THEN "ok" ELSE "error")>>
                    \o [i \in 1..Cardinality(done) |-> Call(deleteApi, "ok")]
                    \o (IF listOk /\ done # targets
                        THEN <<Call(deleteApi, "error")>> ELSE <<>>),
     removed |-> done,
     err     |-> ~listOk \/ done # targets]

\* live: the context of the calls is not cancelled; a call on a cancelled
\* context fails
ListAndDeleteOutcomes(listApi, deleteApi, targets, live) ==
    {ListAndDelete(listApi, deleteApi, targets, FALSE, {})}
        \cup (IF live
              THEN {ListAndDelete(listApi, deleteApi, targets, TRUE, done) :
                        done \in SUBSET targets}
              ELSE {})

NoZone == ""

TeardownStep(kind, zone) == [kind |-> kind, zone |-> zone]

\* a variant of CleanUpExistingWorkers that deletes the script first
TeardownStepsScriptFirst ==
    <<TeardownStep("script", NoZone), TeardownStep("widgets", NoZone)>>
        \o [i \in 1..Len(ZoneConfigs) |-> TeardownStep("routes", ZoneConfigs[i])]
        \o <<TeardownStep("namespaces", NoZone),
             TeardownStep("databases", NoZone)>>

\* the steps of CleanUpExistingWorkers
TeardownSteps ==
    <<TeardownStep("widgets", NoZone)>>
        \o [i \in 1..Len(ZoneConfigs) |-> TeardownStep("routes", ZoneConfigs[i])]
        \o <<TeardownStep("script", NoZone),
             TeardownStep("namespaces", NoZone),
             TeardownStep("databases", NoZone)>>

StepResult(c, calls, err) == [cloud |-> c, calls |-> calls, err |-> err]

\* a variant of the database step of CleanUpExistingWorkers that reports a
\* failed listing at start-up as well
ListingErrorReported(start) == TRUE

\* `if !start { return ... }`: a failed listing of the databases is
\* returned at shutdown only
ListingErrorReturned(start) == ~start

\* the outcomes of one step of CleanUpExistingWorkers(start) on the cloud c
TeardownOutcomes(step, c, start, hasD1Access, live) ==
    CASE step.kind = "widgets" ->
            LET targets == {w \in c.widgets : w.name = WidgetName}
            IN  {StepResult([c EXCEPT !.widgets = @ \ o.removed], o.calls, o.err) :
                    o \in ListAndDeleteOutcomes("ListTurnstileWidgets",
                                                "DeleteTurnstileWidget", targets, live)}
      [] step.kind = "routes" ->
            LET targets == {r \in c.routes :
                                r.zone = step.zone /\ r.script = ScriptName}
            IN  {StepResult([c EXCEPT !.routes = @ \ o.removed], o.calls, o.err) :
                    o \in ListAndDeleteOutcomes("ListWorkerRoutes",
                                                "DeleteWorkerRoute", targets, live)}
      [] step.kind = "script" ->
            {StepResult(c, <<Call("DeleteWorker", "error")>>, TRUE)}
                \cup (IF ~live THEN {}
                      ELSE IF ScriptName \in c.scripts
                      THEN {StepResult([c EXCEPT !.scripts = @ \ {ScriptName}],
                                       <<Call("DeleteWorker", "ok")>>, FALSE)}
                      ELSE {StepResult(c, <<Call("DeleteWorker", "notfound")>>, FALSE)})
      [] step.kind = "namespaces" ->
            LET targets == c.namespaces \cap {KVNameSpaceName}
            IN  {StepResult([c EXCEPT !.namespaces = @ \ o.removed], o.calls, o.err) :
                    o \in ListAndDeleteOutcomes("ListWorkersKVNamespaces",
                                                "DeleteWorkersKVNamespace", targets, live)}
      [] step.kind = "databases" ->
            IF ~(hasD1Access \/ start) THEN {StepResult(c, <<>>, FALSE)}
            ELSE LET targets == c.dbs \cap {D1DBName}
                 IN  {StepResult([c EXCEPT !.dbs = @ \ o.removed], o.calls,
                                 IF o.calls[1].res = "ok" THEN o.err
                                 ELSE ListingErrorReturned(start)) :
                         o \in ListAndDeleteOutcomes("ListD1Databases",
                                                     "DeleteD1Database", targets, live)}

\* the steps of DeployInfra
DeploySteps == <<"namespace", "database", "table", "banTemplate", "worker", "routes">>

DeployResult(c, calls, err, hasD1Access) ==
    [cloud |-> c, calls |-> calls, err |-> err, hasD1Access |-> hasD1Access]

\* one call that must succeed: the cloud it leaves when it does
OneCall(api, c, done, hasD1Access, live) ==
    {DeployResult(c, <<Call(api, "error")>>, TRUE, hasD1Access)}
        \cup (IF live THEN {DeployResult(done, <<Call(api, "ok")>>, FALSE, hasD1Access)}
              ELSE {})

\* a variant of DeployInfra for which a failed database creation is fatal
DatabaseErrorIsFatal == TRUE

\* `m.hasD1Access = false` and on to the next step: DeployInfra does not
\* return the error of CreateD1Database
DatabaseErrorReturned == FALSE

\* the outcomes of one step of DeployInfra on the cloud c
DeployOutcomes(step, c, hasD1Access, live) ==
    CASE step = "namespace" ->
            OneCall("CreateWorkersKVNamespace", c,
                    [c EXCEPT !.namespaces = @ \cup {KVNameSpaceName}],
                    hasD1Access, live)
      [] step = "database" ->
            {DeployResult(c, <<Call("CreateD1Database", "error")>>,
                          DatabaseErrorReturned, FALSE)}
                \cup (IF live
                      THEN {DeployResult([c EXCEPT !.dbs = @ \cup {D1DBName}],
                                         <<Call("CreateD1Database", "ok")>>, FALSE, TRUE)}
                      ELSE {})
      [] step = "table" ->
            IF hasD1Access
            THEN OneCall("QueryD1Database", c, c, hasD1Access, live)
            ELSE {DeployResult(c, <<>>, FALSE, hasD1Access)}
      [] step = "banTemplate" ->
            \* os.ReadFile of a configured template may fail before the write
            {DeployResult(c, <<Call("ReadFile", "error")>>, TRUE, hasD1Access)}
                \cup OneCall("WriteWorkersKVEntries", c, c, hasD1Access, live)
      [] step = "worker" ->
            OneCall("UploadWorker", c, [c EXCEPT !.scripts = @ \cup {ScriptName}],
                    hasD1Access, live)
      [] step = "routes" ->
            \* one goroutine per route, all started before zg.Wait
            {DeployResult([c EXCEPT !.routes = @ \cup {Route(z, ScriptName) : z \in bound}],
                          [i \in 1..Len(ZoneConfigs) |->
                              Call("CreateWorkerRoute",
                                   IF ZoneConfigs[i] \in bound THEN "ok" ELSE "error")],
                          bound # Zones, hasD1Access) :
                bound \in (IF live THEN SUBSET Zones ELSE {{}})}

VARIABLES
    cfManagers,     \* the accounts of the configuration
    manager,        \* account -> CloudflareAccountManager
    namespace,      \* account -> content of the account's KV namespace
    streamDecision, \* the stream item being dispatched
    pc,             \* account -> step of the manager's goroutine
    cycleErr,       \* account -> a step of this cycle returned an error
    prevErr,        \* account -> a step of the cycle before returned an error
    apiCalls,       \* account -> bulk calls issued in this cycle
    stepsRun,       \* account -> steps the goroutine has run in this cycle
    cycleStart,     \* account -> manager and namespace when the item arrived
    faultBudget,    \* number of API calls that may still fail
    observed        \* a fault-free cycle of new decisions only, which an
                    \* observer may pick to see what the next item does to it

\* the batching loop of one bulk operation, taken on its own
VARIABLES
    staged,         \* the staged entries (keysToWrite / keysToDelete)
    bulkBegin,      \* the loop variable i
    bulkCalls       \* the slices handed to the bulk endpoint so far

bulkVars == <<staged, bulkBegin, bulkCalls>>

\* the infrastructure of the accounts and the phases of Execute
VARIABLES
    cloud,          \* account -> the edge resources of the account
    task,           \* account -> the lifecycle operation of its manager
    trail,          \* account -> API calls of the lifecycle operations of
                    \* the current phase
    exec            \* the phase of Execute and the cancelled contexts

lifeVars == <<cloud, task, trail, exec>>

\* the secret rotators that HandleTurnstile starts for the zones of one
\* account
VARIABLES
    widgetTokenCfgByDomain,     \* zone -> the widget tokens held in memory
    widgetTokenCfgByDomainLock, \* the zone whose rotator holds the mutex,
                                \* or Unlocked
    turnstileConfig,            \* the value of the key TURNSTILE_CONFIG
    turnstileWidgets,           \* zone -> the tokens of the zone's widget at
                                \* Cloudflare
    rotator,                    \* zone -> the rotator goroutine of the zone
    ctxs                        \* m.Ctx and the cancelled contexts

rotVars == <<widgetTokenCfgByDomain, widgetTokenCfgByDomainLock, turnstileConfig,
             turnstileWidgets, rotator, ctxs>>

\* the autonomous sync worker (decisions-sync-worker)
VARIABLES
    kvNamespace,    \* the KV namespace bound to the worker: key -> value
    sync            \* the scheduled handler and what its last run did

workerVars == <<kvNamespace, sync>>

\* the functions checked on their own: the normalizers, NewConfig and the bulk read
VARIABLES
    normalizer,     \* a batch of decisions on its way through a normalizer
    config,         \* the configuration file read and what NewConfig returned
    reader,         \* the worker's bulk read of string-keyed decisions
    compared        \* two range maps and what hasRangesChanged said of them

pureVars == <<normalizer, config, reader, compared>>

\* the gauges of the metrics registry
VARIABLES
    TotalActiveDecisions    \* account -> the sum of the gauge active_decisions
                            \* over the label sets of the account

metricVars == <<TotalActiveDecisions>>

\* the parts of the program that most specifications leave out
sideVars == <<rotVars, workerVars, pureVars, metricVars>>

vars == <<cfManagers, manager, namespace, streamDecision, pc, cycleErr,
          prevErr, apiCalls, stepsRun, cycleStart, faultBudget, observed,
          bulkVars, lifeVars, sideVars>>

Unlocked == "unlocked"

\* Turnstile is disabled: no widget, no rotator
NoRotators ==
    /\ widgetTokenCfgByDomain = << >>
    /\ widgetTokenCfgByDomainLock = Unlocked
    /\ turnstileConfig = <<>>
    /\ turnstileWidgets = << >>
    /\ rotator = << >>
    /\ ctxs = [mCtx |-> "run", cancelled |-> {}]

\* the worker between two runs
IdleSync(version) ==
    [version |-> version, phase |-> "idle", honoured |-> FALSE, status |-> 0,
     startup |-> "none", decisions |-> [new |-> <<>>, deleted |-> <<>>],
     outcome |-> "none",
     warmed |-> FALSE]

\* the sync worker is not deployed
NoWorker ==
    /\ kvNamespace = << >>
    /\ sync = IdleSync("none")

\* no function is checked on its own
NoPure ==
    /\ normalizer = [stage |-> "none"]
    /\ config = [stage |-> "none"]
    /\ reader = [stage |-> "none"]
    /\ compared = [stage |-> "none"]

\* the gauge active_decisions is not followed
NoMetrics == TotalActiveDecisions = << >>

NoSide == NoRotators /\ NoWorker /\ NoPure /\ NoMetrics

\* a manager whose infrastructure is deployed and which serves the stream
ServingTask ==
    [op |-> "serving", step |-> 1, start |-> FALSE, hasD1Access |-> TRUE,
     Ctx |-> "run", cleanUpErr |-> "nil", deployErr |-> "nil",
     ret |-> "nil", turnstile |-> "running"]

\* Execute is in its stream loop
RunPhase ==
    [phase |-> "run", looping |-> TRUE, cancelled |-> {"startup"}, exit |-> "none",
     ret |-> "none", main |-> "running"]

\* start-up is over and the run phase goes on for ever
NoLifecycle ==
    /\ cloud = [a \in cfManagers |-> DeployedCloud]
    /\ task = [a \in cfManagers |-> ServingTask]
    /\ trail = [a \in cfManagers |-> <<>>]
    /\ exec = RunPhase

\* no batching loop is being looked at
NoBulk ==
    /\ staged = <<>>
    /\ bulkBegin = 0
    /\ bulkCalls = <<>>

EmptyStream == [new |-> <<>>, deleted |-> <<>>]

Snapshot(a) == [manager |-> manager[a], namespace |-> namespace[a]]

FreshSnapshot == [manager |-> NewCloudflareManager, namespace |-> EmptyMap]

NoObservation ==
    [kind |-> "none", new |-> <<>>, base |-> [a \in cfManagers |-> FreshSnapshot]]

\* the state CloudflareManagersFromConfig and the first select leave, for
\* the accounts of the configuration
InitAccounts(accounts) ==
    /\ cfManagers = accounts
    /\ manager = [a \in cfManagers |-> NewCloudflareManager]
    /\ namespace = [a \in cfManagers |-> EmptyMap]
    /\ streamDecision = EmptyStream
    /\ pc = [a \in cfManagers |-> Idle]
    /\ cycleErr = [a \in cfManagers |-> FALSE]
    /\ prevErr = [a \in cfManagers |-> FALSE]
    /\ apiCalls = [a \in cfManagers |-> <<>>]
    /\ stepsRun = [a \in cfManagers |-> <<>>]
    /\ cycleStart = [a \in cfManagers |-> FreshSnapshot]
    /\ observed = NoObservation

InitManagers == InitAccounts({"acc1"})

\* start-up against an API whose calls may fail
Init ==
    /\ InitManagers
    /\ faultBudget = MaxFaults
    /\ NoBulk
    /\ NoLifecycle
    /\ NoSide

\* start-up against an API that answers every call
InitReliable ==
    /\ InitManagers
    /\ faultBudget = 0
    /\ NoBulk
    /\ NoLifecycle
    /\ NoSide

\* start-up of a configuration with two accounts
InitTwoAccounts ==
    /\ InitAccounts({"acc1", "acc2"})
    /\ faultBudget = MaxFaults
    /\ NoBulk
    /\ NoLifecycle
    /\ NoSide

\* the stream loop is in its select: no goroutine of a cycle is running
AllIdle == \A a \in cfManagers : pc[a] = Idle

\* the body of `case streamDecision := <-csLAPI.Stream` up to the start of
\* the managers' goroutines
Dispatch(new, deleted) ==
    /\ AllIdle
    /\ exec.phase = "run" /\ exec.looping
    /\ streamDecision' = [new     |-> normalizeDecisions(new),
                          deleted |-> normalizeDecisions(deleted)]
    /\ pc' = [a \in cfManagers |-> 1]
    /\ prevErr' = cycleErr
    /\ cycleErr' = [a \in cfManagers |-> FALSE]
    /\ apiCalls' = [a \in cfManagers |-> <<>>]
    /\ stepsRun' = [a \in cfManagers |-> <<>>]
    /\ cycleStart' = [a \in cfManagers |-> Snapshot(a)]
    /\ UNCHANGED <<cfManagers, manager, namespace, faultBudget>>
    /\ UNCHANGED <<bulkVars, lifeVars, sideVars>>

\* the stream delivers an item
ReceiveStreamDecision ==
    /\ observed.kind = "none"
    /\ AllIdle
    /\ \E item \in StreamItems : Dispatch(item.new, item.deleted)
    /\ UNCHANGED observed

\* the stream delivers the new decisions of the observed cycle once more
ReceiveSameAgain ==
    /\ observed.kind = "first"
    /\ Dispatch(observed.new, <<>>)
    /\ observed' = [observed EXCEPT !.kind = "again"]

\* the stream reports the one decision of the observed cycle as deleted
ReceiveDeletion ==
    /\ observed.kind = "first"
    /\ Len(observed.new) = 1
    /\ Dispatch(<<>>, observed.new)
    /\ observed' = [observed EXCEPT !.kind = "undo"]

AnyFailed(calls) == \E i \in 1..Len(calls) : ~calls[i].ok

NumFailed(calls) == Cardinality({i \in 1..Len(calls) : ~calls[i].ok})

\* the outcome of one step of a manager's goroutine
StepOutcome(a, step, r) ==
    /\ manager' = [manager EXCEPT ![a] = r.m]
    /\ namespace' = [namespace EXCEPT ![a] = r.kv]
    /\ apiCalls' = [apiCalls EXCEPT ![a] = @ \o r.calls]
    /\ stepsRun' = [stepsRun EXCEPT ![a] = Append(@, step)]
    /\ cycleErr' = [cycleErr EXCEPT ![a] = r.err]
    /\ pc' = [pc EXCEPT ![a] = IF r.err THEN Done ELSE @ + 1]
    /\ NumFailed(r.calls) <= faultBudget
    /\ faultBudget' = faultBudget - NumFailed(r.calls)
    /\ UNCHANGED <<cfManagers, streamDecision, prevErr, cycleStart, observed>>
    /\ UNCHANGED <<bulkVars, lifeVars, rotVars, workerVars, pureVars>>

\* a step of a manager's goroutine where the gauges are not followed
ApplyStep(a, step, r) == StepOutcome(a, step, r) /\ UNCHANGED metricVars

ProcessDeletedDecisions(a) ==
    /\ a \in cfManagers
    /\ pc[a] \in 1..Len(ManagerSteps)
    /\ ManagerSteps[pc[a]] = "deleted"
    /\ \E failed \in SUBSET BatchIds(Len(streamDecision.deleted)), rangeOk \in BOOLEAN :
          ApplyStep(a, "deleted",
                       DoProcessDeletedDecisions(manager[a], namespace[a],
                                                 streamDecision.deleted, failed, rangeOk))

ProcessNewDecisions(a) ==
    /\ a \in cfManagers
    /\ pc[a] \in 1..Len(ManagerSteps)
    /\ ManagerSteps[pc[a]] = "new"
    /\ \E failed \in SUBSET BatchIds(Len(streamDecision.new)), rangeOk \in BOOLEAN :
          ApplyStep(a, "new",
                       DoProcessNewDecisions(manager[a], namespace[a],
                                             streamDecision.new, failed, rangeOk))

\* the other way a goroutine of the cycle could end: handing its error to
\* the group
ReturnsTheError(err) == err

\* what a manager's goroutine returns to mg: it logs the error of a step and
\* returns nil
GoroutineReturnsError(err) == FALSE

CycleFaultFree ==
    \A a \in cfManagers : ~cycleErr[a] /\ ~AnyFailed(apiCalls[a])

\* mg.Wait(): every goroutine of the cycle has returned; the loop goes back
\* to its select
MgWait ==
    /\ \A a \in cfManagers : pc[a] = Done
    /\ pc' = [a \in cfManagers |->
                 IF \E b \in cfManagers : GoroutineReturnsError(cycleErr[b])
                 THEN Returned ELSE Idle]
    /\ streamDecision' = EmptyStream
    /\ apiCalls' = [a \in cfManagers |-> <<>>]
    /\ stepsRun' = [a \in cfManagers |-> <<>>]
    /\ cycleStart' = [a \in cfManagers |-> Snapshot(a)]
    /\ \/ observed' = NoObservation
       \/ /\ observed.kind = "none"
          /\ streamDecision.new # <<>>
          /\ streamDecision.deleted = <<>>
          /\ CycleFaultFree
          /\ observed' = [kind |-> "first", new |-> streamDecision.new,
                          base |-> cycleStart]
    /\ UNCHANGED <<cfManagers, manager, namespace, cycleErr, prevErr, faultBudget>>
    /\ UNCHANGED <<bulkVars, lifeVars, sideVars>>

Next ==
    \/ ReceiveStreamDecision
    \/ ReceiveSameAgain
    \/ ReceiveDeletion
    \/ \E a \in cfManagers : ProcessDeletedDecisions(a)
    \/ \E a \in cfManagers : ProcessNewDecisions(a)
    \/ MgWait

Spec == Init /\ [][Next]_vars

SpecReliable == InitReliable /\ [][Next]_vars

\* the stream items that leave room for one more decision
ShortStreamItems ==
    {item \in StreamItems : Len(item.new) + Len(item.deleted) < MaxDecisions}

\* the stream delivers one of the shorter items
ReceiveShortStreamDecision ==
    /\ AllIdle
    /\ \E item \in ShortStreamItems : Dispatch(item.new, item.deleted)
    /\ UNCHANGED observed

\* the stream loop serving two accounts, without the replayed stream items
NextTwoAccounts ==
    \/ ReceiveShortStreamDecision
    \/ \E a \in cfManagers : ProcessDeletedDecisions(a)
    \/ \E a \in cfManagers : ProcessNewDecisions(a)
    \/ MgWait /\ observed' = observed

SpecTwoAccounts == InitTwoAccounts /\ [][NextTwoAccounts]_vars

(***************************************************************************)
(* The stream loop of a manager that has served for a while: its index     *)
(* holds any of two addresses, its ranges are published, and the stream    *)
(* delivers short items that name either address or either range.          *)
(***************************************************************************)
FrameValues == {"1.2.3.4", "5.6.7.8"}

FrameDecisions ==
    {Decision("Ip", t, v) : t \in Types, v \in FrameValues}
        \cup {Decision("Range", t, v) : t \in Types, v \in RangeValues}

FrameItems ==
    LET batches == SeqsUpTo(FrameDecisions, MaxFrame)
    IN  {[new |-> n, deleted |-> d] :
            <<n, d>> \in {nd \in batches \X batches :
                             Len(nd[1]) + Len(nd[2]) <= MaxFrame}}

\* a manager and its namespace after cycles that added index and ranges
ServedSnapshot(index, ranges) ==
    [manager   |-> [KVPairByDecisionValue |-> index,
                    ActionByIPRange       |-> ranges,
                    ipRangeKVPair         |-> jsonMarshal(ranges),
                    hasIPRangeKV          |-> TRUE],
     namespace |-> MapPut(index, IpRangeKeyName, jsonMarshal(ranges))]

InitServed ==
    /\ cfManagers = {"acc1"}
    /\ \E index \in UNION {[S -> Types] : S \in SUBSET FrameValues},
          ranges \in RangeMaps :
          /\ manager = [a \in cfManagers |-> ServedSnapshot(index, ranges).manager]
          /\ namespace = [a \in cfManagers |-> ServedSnapshot(index, ranges).namespace]
          /\ cycleStart = [a \in cfManagers |-> ServedSnapshot(index, ranges)]
    /\ streamDecision = EmptyStream
    /\ pc = [a \in cfManagers |-> Idle]
    /\ cycleErr = [a \in cfManagers |-> FALSE]
    /\ prevErr = [a \in cfManagers |-> FALSE]
    /\ apiCalls = [a \in cfManagers |-> <<>>]
    /\ stepsRun = [a \in cfManagers |-> <<>>]
    /\ observed = NoObservation
    /\ faultBudget = 0
    /\ NoBulk
    /\ NoLifecycle
    /\ NoSide

ReceiveFrameItem ==
    /\ AllIdle
    /\ \E item \in FrameItems : Dispatch(item.new, item.deleted)
    /\ UNCHANGED observed

NextServed ==
    \/ ReceiveFrameItem
    \/ \E a \in cfManagers : ProcessDeletedDecisions(a)
    \/ \E a \in cfManagers : ProcessNewDecisions(a)
    \/ MgWait /\ observed' = observed

SpecServed == InitServed /\ [][NextServed]_vars

(***************************************************************************)
(* The stream loop together with the gauge active_decisions, which the     *)
(* loops of ProcessDeletedDecisions and ProcessNewDecisions decrement and  *)
(* increment decision by decision, before their bulk calls.                *)
(***************************************************************************)
\* the entries of the account's index and of its ranges
ActiveEntries(m) ==
    Cardinality(DOMAIN m.KVPairByDecisionValue) + Cardinality(DOMAIN m.ActionByIPRange)

\* the gauge is followed while it is within MaxDrift of the entries
GaugeFollowed(a) ==
    LET drift == TotalActiveDecisions[a] - ActiveEntries(manager[a])
    IN  drift \in (0 - MaxDrift)..MaxDrift

InitMetrics ==
    /\ InitManagers
    /\ faultBudget = MaxFaults
    /\ NoBulk
    /\ NoLifecycle
    /\ NoRotators
    /\ NoWorker
    /\ NoPure
    /\ TotalActiveDecisions = [a \in cfManagers |-> 0]

MeteredDeletedDecisions(a) ==
    /\ a \in cfManagers
    /\ pc[a] \in 1..Len(ManagerSteps)
    /\ ManagerSteps[pc[a]] = "deleted"
    /\ GaugeFollowed(a)
    /\ \E failed \in SUBSET BatchIds(Len(streamDecision.deleted)), rangeOk \in BOOLEAN :
          StepOutcome(a, "deleted",
                      DoProcessDeletedDecisions(manager[a], namespace[a],
                                                streamDecision.deleted, failed, rangeOk))
    /\ TotalActiveDecisions' =
          [TotalActiveDecisions EXCEPT
              ![a] = @ - DeletedLoopDecs(streamDecision.deleted, 1,
                                         manager[a].KVPairByDecisionValue,
                                         manager[a].ActionByIPRange)]

MeteredNewDecisions(a) ==
    /\ a \in cfManagers
    /\ pc[a] \in 1..Len(ManagerSteps)
    /\ ManagerSteps[pc[a]] = "new"
    /\ GaugeFollowed(a)
    /\ \E failed \in SUBSET BatchIds(Len(streamDecision.new)), rangeOk \in BOOLEAN :
          StepOutcome(a, "new",
                      DoProcessNewDecisions(manager[a], namespace[a],
                                            streamDecision.new, failed, rangeOk))
    /\ TotalActiveDecisions' =
          [TotalActiveDecisions EXCEPT
              ![a] = @ + NewLoopIncs(streamDecision.new, 1,
                          [keysToWrite      |-> <<>>,
                           newKVPairByValue |-> CopyKVPairs(manager[a].KVPairByDecisionValue),
                           ActionByIPRange  |-> manager[a].ActionByIPRange])]

NextMetrics ==
    \/ ReceiveShortStreamDecision
    \/ \E a \in cfManagers : MeteredDeletedDecisions(a)
    \/ \E a \in cfManagers : MeteredNewDecisions(a)
    \/ MgWait /\ observed' = observed

SpecMetrics == InitMetrics /\ [][NextMetrics]_vars

(***************************************************************************)
(* The batching loop of ProcessNewDecisions and ProcessDeletedDecisions,   *)
(* one iteration per step:                                                 *)
(*   for i := 0; i < len(keys); i += 10000 {                               *)
(*       begin := i; end := min(i+10000, len(keys)); call(keys[begin:end]) *)
(* The staged entries are numbered 1..n.                                   *)
(***************************************************************************)
loopVars == <<cfManagers, manager, namespace, streamDecision, pc, cycleErr,
              prevErr, apiCalls, stepsRun, cycleStart, faultBudget, observed>>

\* lengths of the staged lists looked at: within MaxSlack of 0, of one and
\* of two full bulk calls
StagedSizes ==
    (0..MaxSlack)
        \cup ((BulkLimit - MaxSlack)..(BulkLimit + MaxSlack))
        \cup ((2 * BulkLimit - MaxSlack)..(2 * BulkLimit + MaxSlack))

InitBulk ==
    /\ InitManagers
    /\ faultBudget = 0
    /\ staged \in {[i \in 1..n |-> i] : n \in StagedSizes}
    /\ bulkBegin = 0
    /\ bulkCalls = <<>>
    /\ NoLifecycle
    /\ NoSide

\* a variant of the loop condition that lets i reach len(keys)
LoopRunsToLen(i, n) == i <= n

\* the loop condition `i < len(keys)`
LoopContinues(i, n) == i < n

\* one iteration of the loop: the goroutine started with keys[begin:end]
IssueBulkCall ==
    /\ LoopContinues(bulkBegin, Len(staged))
    /\ LET begin == bulkBegin
           end   == Min(bulkBegin + BulkLimit, Len(staged))
       IN  bulkCalls' = Append(bulkCalls, SubSeq(staged, begin + 1, end))
    /\ bulkBegin' = bulkBegin + BulkLimit
    /\ UNCHANGED <<staged, loopVars, lifeVars, sideVars>>

SpecBulk == InitBulk /\ [][IssueBulkCall]_vars

(***************************************************************************)
(* Execute from the start-up of the accounts to the end of the process:    *)
(* teardown of stale resources and provisioning per account, the run       *)
(* phase, and the deferred cleanUp.                                        *)
(***************************************************************************)
StartingTask ==
    [op |-> "teardown", step |-> 1, start |-> TRUE, hasD1Access |-> FALSE,
     Ctx |-> "startup", cleanUpErr |-> "none", deployErr |-> "none",
     ret |-> "running", turnstile |-> "none"]

StartupPhase ==
    [phase |-> "startup", looping |-> FALSE, cancelled |-> {}, exit |-> "none",
     ret |-> "none", main |-> "running"]

InitExecute(accounts, clouds) ==
    /\ InitAccounts(accounts)
    /\ faultBudget = 0
    /\ NoBulk
    /\ cloud \in [accounts -> clouds]
    /\ task = [a \in accounts |-> StartingTask]
    /\ trail = [a \in accounts |-> <<>>]
    /\ exec = StartupPhase
    /\ NoSide

\* one account, found in any state
InitLifecycle == InitExecute({"acc1"}, Clouds)

\* two accounts, each found clean or as a killed run left it
InitTwoLifecycles == InitExecute({"acc1", "acc2"}, {ForeignCloud, DeployedCloud})

CtxLive(ctx) == ctx \notin exec.cancelled

\* the first error returned to an errgroup made by WithContext cancels the
\* context of the group
CancelOnError(err, ctx, why) ==
    IF err
    THEN [exec EXCEPT !.cancelled = @ \cup {ctx},
                      !.exit = IF @ = "none" THEN why ELSE @]
    ELSE exec

AfterTeardownStep(t, err) ==
    IF err
    THEN [t EXCEPT !.op = "returned", !.cleanUpErr = "error", !.ret = "error"]
    ELSE IF t.step < Len(TeardownSteps)
    THEN [t EXCEPT !.step = @ + 1]
    ELSE IF t.start
    THEN [t EXCEPT !.op = "deploy", !.step = 1, !.cleanUpErr = "nil"]
    ELSE [t EXCEPT !.op = "returned", !.cleanUpErr = "nil", !.ret = "nil"]

\* one step of CleanUpExistingWorkers, in the goroutine of start-up
\* (start = TRUE) or of cleanUp (start = FALSE)
CleanUpExistingWorkers(a) ==
    /\ a \in cfManagers
    /\ task[a].op = "teardown"
    /\ \E o \in TeardownOutcomes(TeardownSteps[task[a].step], cloud[a], task[a].start,
                                task[a].hasD1Access, CtxLive(task[a].Ctx)) :
          /\ cloud' = [cloud EXCEPT ![a] = o.cloud]
          /\ trail' = [trail EXCEPT ![a] = @ \o o.calls]
          /\ task' = [task EXCEPT ![a] = AfterTeardownStep(task[a], o.err)]
          /\ exec' = CancelOnError(o.err /\ task[a].start, "startup", "startup")
    /\ UNCHANGED <<loopVars, bulkVars, sideVars>>

AfterDeployStep(t, o) ==
    IF o.err
    THEN [t EXCEPT !.op = "returned", !.deployErr = "error", !.ret = "error",
                   !.hasD1Access = o.hasD1Access]
    ELSE IF t.step < Len(DeploySteps)
    THEN [t EXCEPT !.step = @ + 1, !.hasD1Access = o.hasD1Access]
    ELSE [t EXCEPT !.op = "returned", !.deployErr = "nil", !.ret = "nil",
                   !.hasD1Access = o.hasD1Access]

\* one step of DeployInfra, in the goroutine of start-up
DeployInfra(a) ==
    /\ a \in cfManagers
    /\ task[a].op = "deploy"
    /\ \E o \in DeployOutcomes(DeploySteps[task[a].step], cloud[a],
                              task[a].hasD1Access, CtxLive(task[a].Ctx)) :
          /\ cloud' = [cloud EXCEPT ![a] = o.cloud]
          /\ trail' = [trail EXCEPT ![a] = @ \o o.calls]
          /\ task' = [task EXCEPT ![a] = AfterDeployStep(task[a], o)]
          /\ exec' = CancelOnError(o.err, "startup", "startup")
    /\ UNCHANGED <<loopVars, bulkVars, sideVars>>

\* a variant of Execute that goes on after a failed start-up
StartupErrorIgnored == FALSE

\* g.Wait() of the start-up group returns an error
StartupError == \E a \in cfManagers : task[a].ret = "error"

\* `if err := g.Wait(); err != nil { return err }`, and on success the
\* start of the run phase: the run context, the Turnstile handlers, the
\* deferred cleanUp
StartupWait ==
    /\ exec.phase = "startup"
    /\ \A a \in cfManagers : task[a].op = "returned"
    /\ IF StartupError
       THEN /\ exec' = [exec EXCEPT !.phase = "returned",
                                    !.cancelled = @ \cup {"startup"},
                                    !.ret = "startup"]
            /\ UNCHANGED task
       ELSE /\ exec' = [exec EXCEPT !.phase = "run", !.cancelled = @ \cup {"startup"}]
            /\ task' = [a \in cfManagers |->
                          [task[a] EXCEPT !.op = "serving", !.Ctx = "run",
                                          !.turnstile = "starting"]]
    /\ UNCHANGED <<cloud, trail, loopVars, bulkVars, sideVars>>

\* HandleTurnstile up to the start of the rotators: the widgets of the
\* zones are created on m.Ctx as the goroutine reads it; a failed creation
\* is returned to the group, a failed write of the widget configuration is
\* not
HandleTurnstile(a) ==
    /\ a \in cfManagers
    /\ exec.phase \in {"run", "teardown"}
    /\ task[a].turnstile = "starting"
    /\ \E created \in (IF CtxLive(task[a].Ctx) THEN SUBSET Zones ELSE {{}}),
          written \in BOOLEAN :
          /\ cloud' = [cloud EXCEPT ![a].widgets =
                          @ \cup {Widget(WidgetName, z) : z \in created}]
          /\ task' = [task EXCEPT ![a].turnstile =
                          IF created # Zones THEN "failed"
                          ELSE IF written THEN "running" ELSE "stopped"]
          /\ exec' = CancelOnError(created # Zones, "run", "turnstile")
    /\ UNCHANGED <<trail, loopVars, bulkVars, sideVars>>

\* a termination signal: HandleSignals returns an error to the group
HandleSignals ==
    /\ exec.phase = "run"
    /\ CtxLive("run")
    /\ exec' = CancelOnError(TRUE, "run", "signal")
    /\ UNCHANGED <<cloud, task, trail, loopVars, bulkVars, sideVars>>

\* the upstream stream stops: csLAPI.Run returns
LapiRunReturns ==
    /\ exec.phase = "run"
    /\ CtxLive("run")
    /\ exec' = CancelOnError(TRUE, "run", "crowdsec bouncer stopped")
    /\ UNCHANGED <<cloud, task, trail, loopVars, bulkVars, sideVars>>

\* a variant of cleanUp that leaves the managers on the run context
RunCtxKept == "run"

\* `manager.Ctx = context.Background()`
CleanUpCtx == "background"

\* the deferred cleanUp up to g.Wait: cancel, wait for the context, give
\* every manager a fresh context and start its teardown
cleanUp(why) ==
    /\ exec' = [exec EXCEPT !.phase = "teardown",
                            !.cancelled = @ \cup {"run"},
                            !.exit = IF @ = "none" THEN why ELSE @,
                            !.ret = why]
    /\ task' = [a \in cfManagers |->
                  [task[a] EXCEPT !.op = "teardown", !.step = 1, !.start = FALSE,
                                  !.Ctx = CleanUpCtx, !.cleanUpErr = "none",
                                  !.ret = "running"]]
    /\ trail' = [a \in cfManagers |-> <<>>]
    /\ UNCHANGED <<cloud, loopVars, bulkVars, sideVars>>

\* NewMetricsProvider succeeds and Execute reaches the stream loop
StartStreamLoop ==
    /\ exec.phase = "run"
    /\ ~exec.looping
    /\ exec' = [exec EXCEPT !.looping = TRUE]
    /\ UNCHANGED <<cloud, task, trail, loopVars, bulkVars, sideVars>>

\* NewMetricsProvider fails: Execute returns before the stream loop
MetricsProviderFails ==
    /\ exec.phase = "run"
    /\ ~exec.looping
    /\ cleanUp("unable to create metrics provider")

\* `case <-ctx.Done(): return ctx.Err()`
ContextDone ==
    /\ exec.phase = "run"
    /\ exec.looping
    /\ AllIdle
    /\ ~CtxLive("run")
    /\ cleanUp("context done")

\* `if streamDecision == nil { return ... }`
NilStreamDecision ==
    /\ exec.phase = "run"
    /\ exec.looping
    /\ AllIdle
    /\ cleanUp("stream decision is nil")

\* the stream delivers an item without decisions
ReceiveEmptyStreamDecision ==
    /\ AllIdle
    /\ Dispatch(<<>>, <<>>)
    /\ UNCHANGED observed

\* g.Wait() of cleanUp: log.Fatal when a teardown returned an error
CleanUpWait ==
    /\ exec.phase = "teardown"
    /\ \A a \in cfManagers : task[a].op = "returned"
    /\ exec' = [exec EXCEPT !.phase =
                    IF \E a \in cfManagers : task[a].ret = "error"
                    THEN "fatal" ELSE "returned"]
    /\ UNCHANGED <<cloud, task, trail, loopVars, bulkVars, sideVars>>

\* the error value of the return statement by which Execute left:
\* `return ctx.Err()` of a cancelled context gives context.Canceled, every
\* other return statement of the start-up and of the run phase gives an
\* error made on the spot
ExecuteErr(ret) ==
    CASE ret = "none"         -> "none"
      [] ret = "context done" -> "context canceled"
      [] OTHER                -> ret

\* main after Execute has returned: `if err != nil { log.Fatal(err) }`
main ==
    /\ exec.phase = "returned"
    /\ exec.main = "running"
    /\ exec' = [exec EXCEPT !.main =
                    IF ExecuteErr(exec.ret) # "nil" THEN "fatal" ELSE "exited"]
    /\ UNCHANGED <<cloud, task, trail, loopVars, bulkVars, sideVars>>

NextExecute ==
    \/ \E a \in cfManagers : CleanUpExistingWorkers(a)
    \/ \E a \in cfManagers : DeployInfra(a)
    \/ StartupWait
    \/ \E a \in cfManagers : HandleTurnstile(a)
    \/ HandleSignals
    \/ LapiRunReturns
    \/ StartStreamLoop
    \/ MetricsProviderFails
    \/ ContextDone
    \/ NilStreamDecision
    \/ ReceiveEmptyStreamDecision
    \/ \E a \in cfManagers : ProcessDeletedDecisions(a)
    \/ \E a \in cfManagers : ProcessNewDecisions(a)
    \/ MgWait /\ observed' = observed
    \/ CleanUpWait
    \/ main

SpecLifecycle == InitLifecycle /\ [][NextExecute]_vars

SpecTwoLifecycles == InitTwoLifecycles /\ [][NextExecute]_vars

(***************************************************************************)
(* The secret rotators of HandleTurnstile.  The widgets of the zones exist *)
(* and their tokens are published; one goroutine per zone then loops:      *)
(*   select { case <-m.Ctx.Done(): return m.Ctx.Err()                      *)
(*            case <-ticker.C: lock; copy the zone's tokens; unlock;       *)
(*                 rotate the secret at Cloudflare; lock; store the        *)
(*                 tokens; publish TURNSTILE_CONFIG; unlock }              *)
(* Every `return err` inside the tick leaves the loop as it stands, the    *)
(* one after the failed publication with the mutex locked.                 *)
(***************************************************************************)
WidgetTokenCfg(siteKey, secret) == [SiteKey |-> siteKey, Secret |-> secret]

\* the site key Cloudflare gave the widget of a zone when it was created
CreatedSiteKey(z) == <<"sitekey", z>>

\* json.Marshal of map[string]WidgetTokenCfg: one member per domain, in
\* the order of the keys
MarshalWidgetCfg(m) ==
    LET domains == SelectSeq(ZoneConfigs, LAMBDA z : z \in DOMAIN m)
    IN  [i \in 1..Len(domains) |->
            [domain |-> domains[i], site_key |-> m[domains[i]].SiteKey,
             secret |-> m[domains[i]].Secret]]

\* a rotator blocked in its select on the Done channel of the context it
\* read from m.Ctx
Selecting(ctx) ==
    [pc |-> "select", waitsOn |-> ctx, widgetTokenCfg |-> WidgetTokenCfg("", 0),
     err |-> "none"]

InitRotators ==
    /\ InitManagers
    /\ faultBudget = 0
    /\ NoBulk
    /\ NoLifecycle
    /\ widgetTokenCfgByDomain = [z \in Zones |-> WidgetTokenCfg(CreatedSiteKey(z), 0)]
    /\ widgetTokenCfgByDomainLock = Unlocked
    /\ turnstileConfig = MarshalWidgetCfg(widgetTokenCfgByDomain)
    /\ turnstileWidgets = widgetTokenCfgByDomain
    /\ rotator = [z \in Zones |-> Selecting("run")]
    /\ ctxs = [mCtx |-> "run", cancelled |-> {}]
    /\ NoWorker
    /\ NoPure
    /\ NoMetrics

\* the context of the rotators' errgroup, made from the run context, is
\* still live
GroupCtxLive == ctxs.cancelled = {}

\* what a rotator can read from m.Ctx: cleanUp assigns the field with no
\* synchronisation, so after the assignment a read gives either value
MCtxReads == IF ctxs.mCtx = "run" THEN {"run"} ELSE {"run", ctxs.mCtx}

\* a rotator returns err to the errgroup, which cancels the group context
RotatorReturns(z, err, cfg) ==
    /\ rotator' = [rotator EXCEPT ![z] = [pc |-> "returned", waitsOn |-> "none",
                                         widgetTokenCfg |-> cfg, err |-> err]]
    /\ ctxs' = [ctxs EXCEPT !.cancelled = @ \cup {"group"}]

\* `case <-ticker.C`: the rotator leaves the select and goes for the mutex
Tick(z) ==
    /\ rotator[z].pc = "select"
    /\ GroupCtxLive => turnstileWidgets[z].Secret < MaxRotations
    /\ rotator' = [rotator EXCEPT ![z].pc = "lock"]
    /\ UNCHANGED <<widgetTokenCfgByDomain, widgetTokenCfgByDomainLock, turnstileConfig,
                   turnstileWidgets, ctxs>>
    /\ UNCHANGED <<loopVars, bulkVars, lifeVars, workerVars, pureVars, metricVars>>

\* `case <-m.Ctx.Done(): return m.Ctx.Err()`
RotatorCtxDone(z) ==
    /\ rotator[z].pc = "select"
    /\ rotator[z].waitsOn \in ctxs.cancelled
    /\ RotatorReturns(z, "context canceled", rotator[z].widgetTokenCfg)
    /\ UNCHANGED <<widgetTokenCfgByDomain, widgetTokenCfgByDomainLock, turnstileConfig,
                   turnstileWidgets>>
    /\ UNCHANGED <<loopVars, bulkVars, lifeVars, workerVars, pureVars, metricVars>>

\* Lock; widgetTokenCfg := widgetTokenCfgByDomain[zone.Domain]; Unlock
CopyWidgetTokenCfg(z) ==
    /\ rotator[z].pc = "lock"
    /\ widgetTokenCfgByDomainLock = Unlocked
    /\ rotator' = [rotator EXCEPT ![z].pc = "rotate",
                                  ![z].widgetTokenCfg = widgetTokenCfgByDomain[z]]
    /\ UNCHANGED <<widgetTokenCfgByDomain, widgetTokenCfgByDomainLock, turnstileConfig,
                   turnstileWidgets, ctxs>>
    /\ UNCHANGED <<loopVars, bulkVars, lifeVars, workerVars, pureVars, metricVars>>

\* a variant of the tick that keeps the secret it had
SecretKept(cfg, resp) == cfg

\* `widgetTokenCfg.Secret = resp.Secret`
SecretRotated(cfg, resp) == [cfg EXCEPT !.Secret = resp.Secret]

\* RotateTurnstileWidget(ctx, SiteKey, InvalidateImmediately) and the
\* `return err` after it; the call fails on a cancelled context and may
\* fail on a live one
RotateTurnstileWidget(z) ==
    /\ rotator[z].pc = "rotate"
    /\ \E ok \in (IF GroupCtxLive THEN BOOLEAN ELSE {FALSE}) :
          IF ok
          THEN LET resp == [turnstileWidgets[z] EXCEPT !.Secret = @ + 1]
               IN  /\ turnstileWidgets' = [turnstileWidgets EXCEPT ![z] = resp]
                   /\ rotator' = [rotator EXCEPT
                                     ![z].pc = "store",
                                     ![z].widgetTokenCfg = SecretRotated(@, resp)]
                   /\ UNCHANGED ctxs
          ELSE /\ RotatorReturns(z, IF GroupCtxLive THEN "error" ELSE "context canceled",
                                rotator[z].widgetTokenCfg)
               /\ UNCHANGED turnstileWidgets
    /\ UNCHANGED <<widgetTokenCfgByDomain, widgetTokenCfgByDomainLock, turnstileConfig>>
    /\ UNCHANGED <<loopVars, bulkVars, lifeVars, workerVars, pureVars, metricVars>>

\* a variant of the store that starts from the tokens of the creation
StoreInCreatedCopy(map, domain, cfg) ==
    [d \in DOMAIN map |->
        IF d = domain THEN cfg ELSE WidgetTokenCfg(map[d].SiteKey, 0)]

\* `widgetTokenCfgByDomain[zone.Domain] = widgetTokenCfg`
StoreWidgetTokenCfg(map, domain, cfg) == [map EXCEPT ![domain] = cfg]

\* Lock; widgetTokenCfgByDomain[zone.Domain] = widgetTokenCfg;
\* writeWidgetCfgToKV(ctx, widgetTokenCfgByDomain); then either `return err`
\* or Unlock and the next select
PublishWidgetTokenCfg(z) ==
    /\ rotator[z].pc = "store"
    /\ widgetTokenCfgByDomainLock = Unlocked
    /\ widgetTokenCfgByDomain' =
          StoreWidgetTokenCfg(widgetTokenCfgByDomain, z, rotator[z].widgetTokenCfg)
    /\ \E ok \in (IF GroupCtxLive THEN BOOLEAN ELSE {FALSE}) :
          IF ok
          THEN /\ turnstileConfig' = MarshalWidgetCfg(widgetTokenCfgByDomain')
               /\ \E ctx \in MCtxReads :
                     rotator' = [rotator EXCEPT ![z].pc = "select",
                                                ![z].waitsOn = ctx]
               /\ UNCHANGED <<widgetTokenCfgByDomainLock, ctxs>>
          ELSE /\ widgetTokenCfgByDomainLock' = z
               /\ RotatorReturns(z, IF GroupCtxLive THEN "error" ELSE "context canceled",
                                rotator[z].widgetTokenCfg)
               /\ UNCHANGED turnstileConfig
    /\ UNCHANGED turnstileWidgets
    /\ UNCHANGED <<loopVars, bulkVars, lifeVars, workerVars, pureVars, metricVars>>

\* cleanUp: `c(); <-ctx.Done()` and `manager.Ctx = context.Background()`
CancelRun ==
    /\ "run" \notin ctxs.cancelled
    /\ ctxs' = [mCtx |-> CleanUpCtx, cancelled |-> ctxs.cancelled \cup {"run", "group"}]
    /\ UNCHANGED <<widgetTokenCfgByDomain, widgetTokenCfgByDomainLock, turnstileConfig,
                   turnstileWidgets, rotator>>
    /\ UNCHANGED <<loopVars, bulkVars, lifeVars, workerVars, pureVars, metricVars>>

RotatorStep(z) ==
    \/ Tick(z)
    \/ RotatorCtxDone(z)
    \/ CopyWidgetTokenCfg(z)
    \/ RotateTurnstileWidget(z)
    \/ PublishWidgetTokenCfg(z)

NextRotators ==
    \/ \E z \in Zones : RotatorStep(z)
    \/ CancelRun

SpecRotators == InitRotators /\ [][NextRotators]_vars

\* the goroutines are scheduled, the ticker fires and the calls return
SpecRotatorsFair ==
    SpecRotators /\ \A z \in Zones : WF_vars(RotatorStep(z))

(***************************************************************************)
(* The autonomous sync worker.  A cron trigger runs `scheduled`: it        *)
(* honours RESET, fetches the decision stream of the local API, applies    *)
(* it to the KV namespace and marks the namespace as warmed up.  Every     *)
(* await may throw; the handler catches the error and ends the run with    *)
(* what was written so far.  Two versions are in the repository: the       *)
(* source src/index.js ("src") and the bundle dist/main.js ("dist").       *)
(***************************************************************************)
PreservedKeys == {"BAN_TEMPLATE", "TURNSTILE_CONFIG"}

ResetKey == "RESET"

WarmedUpKey == "WARMED_UP"

SupportedScopes == {"ip", "range", "as", "country"}

StringScopes == {"ip", "as", "country"}

\* kvNamespace.get: null for a key that is absent
Null == "null"

KvGet(store, k) == IF k \in DOMAIN store THEN store[k] ELSE Null

\* the values JavaScript takes for false in `!v` and `v && ...`
Falsy(v) == v \in {Null, ""}

\* a JavaScript object with CIDR keys: its members <<key, value>> in
\* insertion order
ObjKeys(o) == {o[i][1] : i \in 1..Len(o)}

ObjGet(o, k) ==
    IF k \in ObjKeys(o) THEN o[CHOOSE i \in 1..Len(o) : o[i][1] = k][2] ELSE Null

ObjSet(o, k, v) ==
    IF k \in ObjKeys(o)
    THEN [i \in 1..Len(o) |-> IF o[i][1] = k THEN <<k, v>> ELSE o[i]]
    ELSE Append(o, <<k, v>>)

\* {...base, ...additional}
RECURSIVE mergeRanges(_, _)
mergeRanges(baseRanges, additionalRanges) ==
    IF additionalRanges = <<>> THEN baseRanges
    ELSE mergeRanges(ObjSet(baseRanges, Head(additionalRanges)[1],
                            Head(additionalRanges)[2]),
                     Tail(additionalRanges))

JsObjects ==
    {o \in SeqsUpTo(RangeValues \X Types, Len(RangeOrder)) :
        Cardinality(ObjKeys(o)) = Len(o)}

\* JSON.stringify of such an object: the members in insertion order
RECURSIVE JsonMembers(_)
JsonMembers(o) ==
    IF o = <<>> THEN ""
    ELSE "\"" \o Head(o)[1] \o "\":\"" \o Head(o)[2] \o "\""
            \o (IF Len(o) > 1 THEN "," ELSE "") \o JsonMembers(Tail(o))

JsonStringify(o) == "{" \o JsonMembers(o) \o "}"

JsonParse(doc) == CHOOSE o \in JsObjects : JsonStringify(o) = doc

\* getIpRanges: the parsed IP_RANGES, {} when the key is absent
getIpRanges(store) ==
    IF Falsy(KvGet(store, IpRangeKeyName)) THEN <<>>
    ELSE JsonParse(store[IpRangeKeyName])

\* Object.keys(o): the keys in the order of their insertion
ObjectKeys(o) == [i \in 1..Len(o) |-> o[i][1]]

\* Object.keys(o).sort()
SortedKeys(o) == SelectSeq(RangeOrder, LAMBDA k : k \in ObjKeys(o))

hasRangesChanged(oldRanges, newRanges) ==
    LET oldKeys == SortedKeys(oldRanges)
        newKeys == SortedKeys(newRanges)
    IN  \/ Len(oldKeys) # Len(newKeys)
        \/ \E i \in 1..Len(oldKeys) :
              \/ oldKeys[i] # newKeys[i]
              \/ ObjGet(oldRanges, oldKeys[i]) # ObjGet(newRanges, newKeys[i])

\* normalizeAndFilterDecisions: the scope is lower-cased, decisions of
\* other scopes are dropped (the fields isValidDecision looks at are all
\* present in the decisions of the universe)
normalizeAndFilterDecisions(decisions) ==
    SelectSeq([i \in 1..Len(decisions) |->
                  [decisions[i] EXCEPT !.scope = ToLower(@)]],
              LAMBDA d : d.scope \in SupportedScopes)

\* the KV key of a string decision
StringKey(d) == IF d.scope = "country" THEN ToLower(d.value) ELSE d.value

processNewDecisions(decisions, existingStringDecisions, existingRanges) ==
    LET changed(d) ==
            /\ d.scope \in StringScopes
            /\ \/ Falsy(KvGet(existingStringDecisions, StringKey(d)))
               \/ existingStringDecisions[StringKey(d)] # d.type
        toWrite == SelectSeq(decisions, changed)
        ranges  == SelectSeq(decisions, LAMBDA d : d.scope = "range")
    IN  [stringEntries |-> [i \in 1..Len(toWrite) |->
                               [Key |-> StringKey(toWrite[i]), Value |-> toWrite[i].type]],
         jsonEntries   |-> mergeRanges(<<>>, [i \in 1..Len(ranges) |->
                                                 <<ranges[i].value, ranges[i].type>>])]

processDeletedDecisions(decisions, existingStringDecisions, existingRanges) ==
    LET held(d) ==
            /\ d.scope \in StringScopes
            /\ KvGet(existingStringDecisions, StringKey(d)) = d.type
        toDelete == SelectSeq(decisions, held)
        dropped(e) == \E i \in 1..Len(decisions) :
                         /\ decisions[i].scope = "range"
                         /\ decisions[i].value = e[1]
                         /\ decisions[i].type = e[2]
    IN  [stringKeysToDelete |-> [i \in 1..Len(toDelete) |-> StringKey(toDelete[i])],
         updatedRanges      |-> SelectSeq(existingRanges, LAMBDA e : ~dropped(e))]

\* a variant of the purge that spares the warm-up flag
KeysToDeleteButWarmedUp(store) ==
    DOMAIN store \ (PreservedKeys \cup {ResetKey, WarmedUpKey})

\* `allKeys.filter(key => !PRESERVED_KEYS.includes(key) && key !== RESET_KEY)`
KeysToDelete(store) == DOMAIN store \ (PreservedKeys \cup {ResetKey})

\* a variant of the purge that puts RESET = "false" before it lists and
\* deletes
resetPutsFirst(store, failAt) ==
    LET lowered == MapPut(store, ResetKey, "false")
        purged  == [k \in DOMAIN lowered \ KeysToDelete(lowered) |-> lowered[k]]
    IN  IF failAt = "put"
        THEN [kv |-> store, ok |-> FALSE]
        ELSE IF failAt = "list" \/ (failAt = "delete" /\ KeysToDelete(store) # {})
        THEN [kv |-> lowered, ok |-> FALSE]
        ELSE [kv |-> purged, ok |-> TRUE]

\* resetAllDecisions: list the keys, delete all but the preserved ones in
\* bulk, put RESET = "false"; failAt names the call that throws
resetAllDecisions(store, failAt) ==
    LET purged == [k \in DOMAIN store \ KeysToDelete(store) |-> store[k]]
    IN  IF failAt = "list" \/ (failAt = "delete" /\ KeysToDelete(store) # {})
        THEN [kv |-> store, ok |-> FALSE]
        ELSE IF failAt = "put"
        THEN [kv |-> purged, ok |-> FALSE]
        ELSE [kv |-> MapPut(purged, ResetKey, "false"), ok |-> TRUE]

\* what the stream endpoint of the local API answers: an error, 204, or
\* at most one new and one deleted decision
LapiResponses ==
    {[status |-> 500, new |-> <<>>, deleted |-> <<>>],
     [status |-> 204, new |-> <<>>, deleted |-> <<>>]}
        \cup {[status |-> 200, new |-> item.new, deleted |-> item.deleted] :
                 item \in {i \in StreamItems : Len(i.new) <= 1 /\ Len(i.deleted) <= 1}}

Failures == {"none", "fetch", "list", "put", "get", "write", "delete", "ranges", "warm"}

\* a variant of the handler that goes on with the sync after a 204
DeleteAllIgnored(version, status) == FALSE

\* `if (decisions.deleteAll)`: only the bundle looks at the flag that
\* fetchDecisionsStream sets for a 204
DeleteAllHandled(version, status) == version = "dist" /\ status = 204

\* the handler from isFirstFetch to its end
SyncToKV(version, store, response, failAt) ==
    LET isFirst   == Falsy(KvGet(store, WarmedUpKey))
        warmNow   == version = "src" /\ isFirst
        warmLast  == version = "dist" /\ isFirst
        Result(st, outcome) ==
            [kv |-> st, outcome |-> outcome,
             startup |-> IF isFirst THEN "true" ELSE "false",
             decisions |-> EmptyStream,
             warmed |-> isFirst /\ KvGet(st, WarmedUpKey) = "true"]
        s1        == IF warmNow THEN MapPut(store, WarmedUpKey, "true") ELSE store
        decisions == [new     |-> normalizeAndFilterDecisions(response.new),
                      deleted |-> normalizeAndFilterDecisions(response.deleted)]
        existingRanges == getIpRanges(s1)
        fetched == decisions.new \o decisions.deleted
        wanted == {StringKey(fetched[i]) :
                      i \in {j \in 1..Len(fetched) : fetched[j].scope \in StringScopes}}
        existingStringDecisions ==
            IF isFirst THEN << >>
            ELSE [k \in wanted \cap DOMAIN s1 |-> s1[k]]
        newProcessed == processNewDecisions(decisions.new, existingStringDecisions,
                                            existingRanges)
        deletedProcessed == processDeletedDecisions(decisions.deleted,
                                                    existingStringDecisions, existingRanges)
        finalRanges == mergeRanges(deletedProcessed.updatedRanges, newProcessed.jsonEntries)
        s2 == WriteWorkersKVEntries(s1, newProcessed.stringEntries, TRUE)
        s3 == DeleteWorkersKVEntries(s2, deletedProcessed.stringKeysToDelete, TRUE)
        s4 == IF hasRangesChanged(existingRanges, finalRanges)
              THEN MapPut(s3, IpRangeKeyName, JsonStringify(finalRanges))
              ELSE s3
        s5 == IF warmLast THEN MapPut(s4, WarmedUpKey, "true") ELSE s4
        Synced(st, outcome) == [Result(st, outcome) EXCEPT !.decisions = decisions]
    IN  IF response.status = 500 \/ failAt = "fetch"
        THEN Result(store, "error")
        ELSE IF warmNow /\ failAt = "warm"
        THEN Result(store, "error")
        ELSE IF DeleteAllHandled(version, response.status)
        THEN LET r == resetAllDecisions(store, failAt)
             IN  Result(r.kv, IF r.ok THEN "cleared" ELSE "error")
        ELSE IF ~isFirst /\ wanted # {} /\ failAt = "get"
        THEN Synced(s1, "error")
        ELSE IF newProcessed.stringEntries # <<>> /\ failAt = "write"
        THEN Synced(s1, "error")
        ELSE IF deletedProcessed.stringKeysToDelete # <<>> /\ failAt = "delete"
        THEN Synced(s2, "error")
        ELSE IF s4 # s3 /\ failAt = "ranges"
        THEN Synced(s3, "error")
        ELSE IF warmLast /\ failAt = "warm"
        THEN Synced(s4, "error")
        ELSE Synced(s5, "ok")

\* the namespace DeployInfra leaves to the worker
DeployedNamespace ==
    [k \in PreservedKeys |-> IF k = "BAN_TEMPLATE" THEN "Access Denied" ELSE "{}"]

InitWorker ==
    /\ InitManagers
    /\ faultBudget = 0
    /\ NoBulk
    /\ NoLifecycle
    /\ NoRotators
    /\ NoPure
    /\ NoMetrics
    /\ kvNamespace = DeployedNamespace
    /\ sync \in {IdleSync(version) : version \in {"src", "dist"}}

\* the start of a run: shouldReset and, in the bundle, resetAllDecisions
CheckReset ==
    /\ sync.phase = "idle"
    /\ LET started == [IdleSync(sync.version) EXCEPT !.warmed = sync.warmed]
       IN  IF sync.version = "dist" /\ KvGet(kvNamespace, ResetKey) = "true"
           THEN \E failAt \in {"none", "list", "delete", "put"} :
                   LET r == resetAllDecisions(kvNamespace, failAt)
                   IN  /\ kvNamespace' = r.kv
                       /\ sync' = IF r.ok
                                  THEN [started EXCEPT !.phase = "fetch",
                                                       !.honoured = TRUE]
                                  ELSE [started EXCEPT !.outcome = "error"]
           ELSE /\ sync' = [started EXCEPT !.phase = "fetch"]
                /\ UNCHANGED kvNamespace
    /\ UNCHANGED <<loopVars, bulkVars, lifeVars, rotVars, pureVars, metricVars>>

\* the rest of the run, for an answer of the local API
FetchAndSync ==
    /\ sync.phase = "fetch"
    /\ \E response \in LapiResponses, failAt \in Failures :
          LET r == SyncToKV(sync.version, kvNamespace, response, failAt)
          IN  /\ kvNamespace' = r.kv
              /\ sync' = [sync EXCEPT !.phase = "idle", !.status = response.status,
                                      !.startup = r.startup, !.decisions = r.decisions,
                                      !.outcome = r.outcome,
                                      !.warmed = @ \/ r.warmed]
    /\ UNCHANGED <<loopVars, bulkVars, lifeVars, rotVars, pureVars, metricVars>>

\* the operator asks for a purge: RESET is set to "true"
RequestReset ==
    /\ sync.phase = "idle"
    /\ KvGet(kvNamespace, ResetKey) # "true"
    /\ kvNamespace' = MapPut(kvNamespace, ResetKey, "true")
    /\ UNCHANGED <<sync, loopVars, bulkVars, lifeVars, rotVars, pureVars, metricVars>>

NextWorker ==
    \/ CheckReset
    \/ FetchAndSync
    \/ RequestReset

SpecWorker == InitWorker /\ [][NextWorker]_vars

(***************************************************************************)
(* The normalizers.  Both take the decisions of one stream item as the     *)
(* local API sent them and hand a list on to the reconciliation: the Go    *)
(* bouncer through normalizeDecisions and ProcessNewDecisions, the worker  *)
(* through normalizeAndFilterDecisions and processNewDecisions.            *)
(***************************************************************************)
\* decisions as the local API may send them: any scope, any letter case
RawDecisions ==
    { Decision(scope, type, value) :
        scope \in {"Ip", "Country", "Username"},
        type  \in {"ban", "Ban"},
        value \in {"1.2.3.4", "CN"} }

RawBatches == SeqsUpTo(RawDecisions, MaxRaw)

IsLower(s) == ToLower(s) = s

InitNormalizer ==
    /\ InitManagers
    /\ faultBudget = 0
    /\ NoBulk
    /\ NoLifecycle
    /\ NoRotators
    /\ NoWorker
    /\ config = [stage |-> "none"]
    /\ reader = [stage |-> "none"]
    /\ compared = [stage |-> "none"]
    /\ NoMetrics
    /\ \E raw \in RawBatches :
          normalizer = [stage |-> "received", via |-> "none", raw |-> raw,
                        handed |-> <<>>, index |-> {}, kv |-> {}]

\* Execute: streamDecision.New goes through normalizeDecisions
GoNormalize ==
    /\ normalizer.stage = "received"
    /\ normalizer' = [normalizer EXCEPT
                         !.stage = "handed", !.via = "go",
                         !.handed = normalizeDecisions(normalizer.raw)]
    /\ UNCHANGED <<loopVars, bulkVars, lifeVars, rotVars, workerVars, config, reader,
                 compared, metricVars>>

\* fetchDecisionsStream: data.new goes through normalizeAndFilterDecisions
JsNormalize ==
    /\ normalizer.stage = "received"
    /\ normalizer' = [normalizer EXCEPT
                         !.stage = "handed", !.via = "js",
                         !.handed = normalizeAndFilterDecisions(normalizer.raw)]
    /\ UNCHANGED <<loopVars, bulkVars, lifeVars, rotVars, workerVars, config, reader,
                 compared, metricVars>>

\* ProcessNewDecisions of a fresh manager on the list handed on
GoReconcile ==
    /\ normalizer.stage = "handed"
    /\ normalizer.via = "go"
    /\ LET done == DoProcessNewDecisions(NewCloudflareManager, EmptyMap,
                                         normalizer.handed, {}, TRUE)
       IN  normalizer' = [normalizer EXCEPT
                             !.stage = "applied",
                             !.index = DOMAIN done.m.KVPairByDecisionValue,
                             !.kv    = DOMAIN done.kv \ {IpRangeKeyName}]
    /\ UNCHANGED <<loopVars, bulkVars, lifeVars, rotVars, workerVars, config, reader,
                 compared, metricVars>>

\* processNewDecisions on an empty namespace, then the batch write
JsReconcile ==
    /\ normalizer.stage = "handed"
    /\ normalizer.via = "js"
    /\ LET done == processNewDecisions(normalizer.handed, << >>, <<>>)
       IN  normalizer' = [normalizer EXCEPT
                             !.stage = "applied",
                             !.kv = { done.stringEntries[i].Key :
                                        i \in 1..Len(done.stringEntries) }]
    /\ UNCHANGED <<loopVars, bulkVars, lifeVars, rotVars, workerVars, config, reader,
                 compared, metricVars>>

NextNormalizer ==
    \/ GoNormalize
    \/ JsNormalize
    \/ GoReconcile
    \/ JsReconcile

SpecNormalizer == InitNormalizer /\ [][NextNormalizer]_vars

(***************************************************************************)
(* NewConfig.  The file holds one account; its zones are checked in order  *)
(* and the first failed check is the error returned.  The loop variable    *)
(* `zone` of `for _, zone := range account.ZoneConfigs` is a copy of the   *)
(* element: the append of the default action changes the copy, and the     *)
(* configuration returned is the one unmarshalled.                         *)
(***************************************************************************)
validAction == {"captcha", "ban"}

\* the zones a file may declare; a default_action left out is ""
FileZones ==
    { [ID |-> id, Actions |-> actions, DefaultAction |-> default,
       Turnstile |-> [Enabled |-> enabled]] :
        id \in {"z1", "z2"},
        actions \in {<<>>, <<"ban">>, <<"captcha">>, <<"ban", "captcha">>},
        default \in {"", "ban", "captcha"},
        enabled \in BOOLEAN }

ConfigFiles ==
    { [ID |-> "acc1", Token |-> token, ZoneConfigs |-> zones] :
        token \in {"", "token"},
        zones \in SeqsUpTo(FileZones, MaxZones) \ {<<>>} }

stringSliceContains(slice, t) == \E i \in 1..Len(slice) : slice[i] = t

\* for _, a := range zone.Actions: the first action that fails a check
RECURSIVE ActionsLoop(_, _, _)
ActionsLoop(zone, actions, j) ==
    IF j > Len(actions) THEN "nil"
    ELSE IF actions[j] \notin validAction THEN "invalid actions"
    ELSE IF actions[j] = "captcha" /\ ~zone.Turnstile.Enabled
         THEN "turnstile must be enabled"
    ELSE ActionsLoop(zone, actions, j + 1)

\* the loop variable: a copy of the zone with the default action appended
ZoneCopy(zone) ==
    IF ~stringSliceContains(zone.Actions, zone.DefaultAction)
    THEN [zone EXCEPT !.Actions = Append(@, zone.DefaultAction)]
    ELSE zone

\* for _, zone := range account.ZoneConfigs
RECURSIVE ZonesLoop(_, _, _)
ZonesLoop(zones, i, zoneIDSet) ==
    IF i > Len(zones) THEN "nil"
    ELSE LET zone == ZoneCopy(zones[i])
             err  == ActionsLoop(zone, zone.Actions, 1)
         IN  IF Len(zone.Actions) = 0 THEN "has no action"
             ELSE IF err # "nil" THEN err
             ELSE IF zone.ID \in zoneIDSet THEN "zone id is duplicated"
             ELSE ZonesLoop(zones, i + 1, zoneIDSet \cup {zone.ID})

NewConfig(file) ==
    LET err == IF file.Token = "" THEN "is missing token"
               ELSE ZonesLoop(file.ZoneConfigs, 1, {})
    IN  IF err # "nil"
        THEN [config |-> "nil", err |-> err]
        ELSE [config |-> file, err |-> "nil"]

InitConfig ==
    /\ InitManagers
    /\ faultBudget = 0
    /\ NoBulk
    /\ NoLifecycle
    /\ NoRotators
    /\ NoWorker
    /\ normalizer = [stage |-> "none"]
    /\ reader = [stage |-> "none"]
    /\ compared = [stage |-> "none"]
    /\ NoMetrics
    /\ \E file \in ConfigFiles :
          config = [stage |-> "read", file |-> file, returned |-> "nil", err |-> "nil"]

\* getConfigFromPath: the file is opened and given to NewConfig
LoadConfig ==
    /\ config.stage = "read"
    /\ LET got == NewConfig(config.file)
       IN  config' = [config EXCEPT
                         !.stage = IF got.err = "nil" THEN "accepted" ELSE "rejected",
                         !.returned = got.config,
                         !.err = got.err]
    /\ UNCHANGED <<loopVars, bulkVars, lifeVars, rotVars, workerVars, normalizer, reader,
                 compared, metricVars>>

NextConfig == LoadConfig

SpecConfig == InitConfig /\ [][NextConfig]_vars

(***************************************************************************)
(* batchGetStringBasedDecisions.  Three versions are in the repository:    *)
(* the bundle dist/main.js ("dist") reads BATCH_SIZE_GET keys per request  *)
(* of the bulk endpoint, the KV adapter of the source ("adapter") reads    *)
(* BATCH_SIZE keys per request, and core/decision-fetcher.js ("core")      *)
(* reads every key with its own kvNamespace.get.  A request that is not    *)
(* answered with ok throws and ends the read.                              *)
(***************************************************************************)
BATCH_SIZE_GET == 100
BATCH_SIZE == 10000

ReaderVersions == {"dist", "adapter", "core"}

\* keys read per request of the bulk endpoint
BatchSizeOf(version) == IF version = "dist" THEN BATCH_SIZE_GET ELSE BATCH_SIZE

Request(kind, keys, ok) == [kind |-> kind, keys |-> keys, ok |-> ok]

InitReader ==
    /\ InitManagers
    /\ faultBudget = 0
    /\ NoBulk
    /\ NoLifecycle
    /\ NoRotators
    /\ NoWorker
    /\ normalizer = [stage |-> "none"]
    /\ config = [stage |-> "none"]
    /\ compared = [stage |-> "none"]
    /\ NoMetrics
    /\ \E version \in ReaderVersions, n \in 0..MaxKeys :
          reader = [stage |-> "reading", version |-> version, keys |-> n,
                    i |-> 0, requests |-> <<>>]

\* one turn of `for (let i = 0; i < keys.length; i += BATCH_SIZE...)`
BulkGet ==
    /\ reader.stage = "reading"
    /\ reader.version \in {"dist", "adapter"}
    /\ reader.i < reader.keys
    /\ \E ok \in BOOLEAN :
          LET size  == BatchSizeOf(reader.version)
              batch == Min(reader.i + size, reader.keys) - reader.i
          IN  reader' = [reader EXCEPT
                            !.requests = Append(@, Request("bulk", batch, ok)),
                            !.i = IF ok THEN @ + size ELSE @,
                            !.stage = IF ok THEN @ ELSE "thrown"]
    /\ UNCHANGED <<loopVars, bulkVars, lifeVars, rotVars, workerVars, normalizer, config,
                 compared, metricVars>>

\* keys.map(async (key) => kvNamespace.get(key)) and Promise.all
GetEach ==
    /\ reader.stage = "reading"
    /\ reader.version = "core"
    /\ reader.keys > 0
    /\ reader' = [reader EXCEPT
                     !.requests = [k \in 1..reader.keys |-> Request("get", 1, TRUE)],
                     !.i = reader.keys,
                     !.stage = "returned"]
    /\ UNCHANGED <<loopVars, bulkVars, lifeVars, rotVars, workerVars, normalizer, config,
                 compared, metricVars>>

\* return existingMap, also for an empty list of keys
ReturnExistingMap ==
    /\ reader.stage = "reading"
    /\ reader.i >= reader.keys
    /\ reader' = [reader EXCEPT !.stage = "returned"]
    /\ UNCHANGED <<loopVars, bulkVars, lifeVars, rotVars, workerVars, normalizer, config,
                 compared, metricVars>>

NextReader ==
    \/ BulkGet
    \/ GetEach
    \/ ReturnExistingMap

SpecReader == InitReader /\ [][NextReader]_vars

(***************************************************************************)
(* hasRangesChanged, given any two objects of ranges: the same ranges may  *)
(* have been inserted in different orders.                                 *)
(***************************************************************************)
InitCompare ==
    /\ InitManagers
    /\ faultBudget = 0
    /\ NoBulk
    /\ NoLifecycle
    /\ NoRotators
    /\ NoWorker
    /\ normalizer = [stage |-> "none"]
    /\ config = [stage |-> "none"]
    /\ reader = [stage |-> "none"]
    /\ NoMetrics
    /\ \E oldRanges \in JsObjects, newRanges \in JsObjects :
          compared = [stage |-> "given", oldRanges |-> oldRanges,
                      newRanges |-> newRanges]

\* the call hasRangesChanged(oldRanges, newRanges) and what it returns
CompareRanges ==
    /\ compared.stage = "given"
    /\ compared' = [stage |-> "returned",
                    oldRanges |-> compared.oldRanges,
                    newRanges |-> compared.newRanges,
                    changed |-> hasRangesChanged(compared.oldRanges,
                                                 compared.newRanges)]
    /\ UNCHANGED <<loopVars, bulkVars, lifeVars, rotVars, workerVars, normalizer,
                 config, reader, metricVars>>

NextCompare == CompareRanges

SpecCompare == InitCompare /\ [][NextCompare]_vars

(***************************************************************************)
(* Vocabulary of the properties.                                           *)
(***************************************************************************)
Index(a) == manager[a].KVPairByDecisionValue

Ranges(a) == manager[a].ActionByIPRange

\* the per-key entries of a namespace: everything but the IP_RANGES document
KeyEntries(kv) == [k \in DOMAIN kv \ {IpRangeKeyName} |-> kv[k]]

\* the IP_RANGES document of a namespace, the empty object when absent
CommittedDoc(kv) == IF IpRangeKeyName \in DOMAIN kv THEN kv[IpRangeKeyName] ELSE "{}"

\* the ranges the IP_RANGES document of a namespace describes
RemoteRanges(kv) == jsonUnmarshal(CommittedDoc(kv))

IsRangeWrite(call) ==
    /\ call.op = "write"
    /\ \E i \in 1..Len(call.entries) : call.entries[i].Key = IpRangeKeyName

\* the keys a bulk call of the given kind carries
Carries(call, op, key) ==
    /\ call.op = op
    /\ \E i \in 1..Len(call.entries) : call.entries[i].Key = key

\* type of the last decision of the list that names the value
LastTypeFor(decisions, value) ==
    LET last == CHOOSE i \in 1..Len(decisions) :
                    /\ decisions[i].value = value
                    /\ \A j \in (i + 1)..Len(decisions) : decisions[j].value # value
    IN  decisions[last].type

NamesWithType(decisions, value, type) ==
    \E i \in 1..Len(decisions) :
        decisions[i].value = value /\ decisions[i].type = type

CycleOver(a) == pc[a] = Done

DeletedStepJustRan(a) == stepsRun[a] = <<"deleted">>

NewStepRan(a) == stepsRun[a] # <<>> /\ stepsRun[a][Len(stepsRun[a])] = "new"

Churn(value) ==
    /\ streamDecision.deleted = <<Decision("ip", "ban", value)>>
    /\ streamDecision.new = <<Decision("ip", "captcha", value)>>

HeldAtStart(a, value, type) ==
    /\ value \in DOMAIN cycleStart[a].manager.KVPairByDecisionValue
    /\ cycleStart[a].manager.KVPairByDecisionValue[value] = type

(***************************************************************************)
(* Properties.                                                             *)
(***************************************************************************)

\* C1: in every cycle a manager's goroutine runs ProcessDeletedDecisions to
\* completion before ProcessNewDecisions starts; and a cycle whose calls all
\* succeed, that starts with the index holding V -> ban and carries
\* deleted = [(ip, ban, V)], new = [(ip, captcha, V)], ends with V -> captcha
\* in the index and in the KV namespace.
C1_DeletionsBeforeAdditions ==
    \A a \in cfManagers :
        /\ stepsRun[a] \in {<<>>, <<"deleted">>, <<"deleted", "new">>}
        /\ \A v \in {"1.2.3.4"} :
              (/\ CycleOver(a)
               /\ ~cycleErr[a] /\ ~AnyFailed(apiCalls[a])
               /\ Churn(v)
               /\ HeldAtStart(a, v, "ban"))
              => /\ v \in DOMAIN Index(a) /\ Index(a)[v] = "captcha"
                 /\ v \in DOMAIN namespace[a] /\ namespace[a][v] = "captcha"

C1_Witness ==
    \E a \in cfManagers :
        /\ CycleOver(a)
        /\ stepsRun[a] = <<"deleted", "new">>
        /\ ~cycleErr[a] /\ ~AnyFailed(apiCalls[a])
        /\ Churn("1.2.3.4")
        /\ HeldAtStart(a, "1.2.3.4", "ban")
        /\ \E i \in 1..Len(apiCalls[a]) : Carries(apiCalls[a][i], "delete", "1.2.3.4")
        /\ namespace[a]["1.2.3.4"] = "captcha"

\* C2: when no API call ever fails, at the end of every cycle each per-key
\* entry of the KV namespace is in the index with the type the KV stores.
C2_KVEntriesAreIndexed ==
    \A a \in cfManagers :
        CycleOver(a) =>
            \A k \in DOMAIN KeyEntries(namespace[a]) :
                k \in DOMAIN Index(a) /\ Index(a)[k] = namespace[a][k]

\* C3: once ProcessNewDecisions has returned without error, every
\* ip/as/country value of the batch is a key of the namespace, every range of
\* the batch is in the IP_RANGES document with the type of the (last)
\* decision naming it, and no bulk call wrote a per-key entry for a range.
C3_BatchIsPublished ==
    \A a \in cfManagers :
        (NewStepRan(a) /\ ~cycleErr[a]) =>
            \A i \in 1..Len(streamDecision.new) :
                LET d == streamDecision.new[i]
                IN  IF d.scope = "range"
                    THEN /\ d.value \in DOMAIN RemoteRanges(namespace[a])
                         /\ RemoteRanges(namespace[a])[d.value]
                                = LastTypeFor(streamDecision.new, d.value)
                         /\ d.value \notin DOMAIN namespace[a]
                         /\ \A c \in 1..Len(apiCalls[a]) :
                                ~Carries(apiCalls[a][c], "write", d.value)
                    ELSE d.value \in DOMAIN namespace[a]

\* C4: a deleted ip/as/country decision whose type differs from the type the
\* index records for its value (no other decision of the list naming the
\* value with the recorded type) is skipped: no bulk delete carries the key,
\* and the index entry and the KV entry of the value stay as they were.
C4_StaleDeletionSkipped ==
    \A a \in cfManagers :
        DeletedStepJustRan(a) =>
            \A i \in 1..Len(streamDecision.deleted) :
                LET d    == streamDecision.deleted[i]
                    idx0 == cycleStart[a].manager.KVPairByDecisionValue
                    kv0  == cycleStart[a].namespace
                IN  (/\ d.scope # "range"
                     /\ d.value \in DOMAIN idx0
                     /\ idx0[d.value] # d.type
                     /\ ~NamesWithType(streamDecision.deleted, d.value, idx0[d.value]))
                    => /\ \A c \in 1..Len(apiCalls[a]) :
                              ~Carries(apiCalls[a][c], "delete", d.value)
                       /\ d.value \in DOMAIN Index(a)
                       /\ Index(a)[d.value] = idx0[d.value]
                       /\ (d.value \in DOMAIN namespace[a]) = (d.value \in DOMAIN kv0)
                       /\ d.value \in DOMAIN kv0 => namespace[a][d.value] = kv0[d.value]

C4_Witness ==
    \E a \in cfManagers :
        /\ DeletedStepJustRan(a)
        /\ streamDecision.deleted = <<Decision("ip", "ban", "1.2.3.4")>>
        /\ HeldAtStart(a, "1.2.3.4", "captcha")
        /\ Index(a)["1.2.3.4"] = "captcha"
        /\ apiCalls[a] = <<>>

\* C5: a deleted range decision whose type differs from the type recorded for
\* its CIDR (no other decision of the list naming the CIDR with the recorded
\* type) leaves rangeMap and the IP_RANGES document as they were.
C5_RangeDeletionTypeMatched ==
    \A a \in cfManagers :
        DeletedStepJustRan(a) =>
            \A i \in 1..Len(streamDecision.deleted) :
                LET d  == streamDecision.deleted[i]
                    r0 == cycleStart[a].manager.ActionByIPRange
                IN  (/\ d.scope = "range"
                     /\ d.value \in DOMAIN r0
                     /\ r0[d.value] # d.type
                     /\ ~NamesWithType(streamDecision.deleted, d.value, r0[d.value]))
                    => /\ Ranges(a) = r0
                       /\ CommittedDoc(namespace[a]) = CommittedDoc(cycleStart[a].namespace)

\* C6: for every ip/as/country value of the batch, the bulk writes of
\* ProcessNewDecisions carry at most one entry for the value, and that entry
\* has the type of the last decision of the batch naming the value.
C6_LastWriteWins ==
    \A a \in cfManagers :
        NewStepRan(a) =>
            \A v \in {streamDecision.new[i].value : i \in 1..Len(streamDecision.new)} :
                LET sent == {<<c, e>> \in (1..Len(apiCalls[a])) \X (1..MaxDecisions) :
                                /\ apiCalls[a][c].op = "write"
                                /\ e <= Len(apiCalls[a][c].entries)
                                /\ apiCalls[a][c].entries[e].Key = v}
                IN  /\ Cardinality(sent) <= 1
                    /\ \A ce \in sent :
                          apiCalls[a][ce[1]].entries[ce[2]].Value
                              = LastTypeFor(streamDecision.new, v)

\* C7: the first cycle after a cycle in which a step failed, if all its API
\* calls succeed, ends with the KV namespace equal to the projection of the
\* index: the per-key entries are stringMap, IP_RANGES describes rangeMap.
C7_ConvergesAfterFailure ==
    \A a \in cfManagers :
        (/\ CycleOver(a)
         /\ prevErr[a]
         /\ ~cycleErr[a] /\ ~AnyFailed(apiCalls[a]))
        => /\ KeyEntries(namespace[a]) = Index(a)
           /\ CommittedDoc(namespace[a]) = jsonMarshal(Ranges(a))

\* the bulk calls issued by the step being taken
StepCalls(a) == SubSeq(apiCalls'[a], Len(apiCalls[a]) + 1, Len(apiCalls'[a]))

\* the step being taken is a step of a's goroutine that reached
\* CommitIPRangesIfChanged
CommitRan(a) ==
    /\ Len(stepsRun'[a]) = Len(stepsRun[a]) + 1
    /\ \A c \in 1..Len(StepCalls(a)) :
          IsRangeWrite(StepCalls(a)[c]) \/ StepCalls(a)[c].ok
    /\ \/ stepsRun'[a][Len(stepsRun'[a])] = "new"
       \/ \E c \in 1..Len(StepCalls(a)) : StepCalls(a)[c].op = "delete"

\* C8: CommitIPRangesIfChanged writes IP_RANGES exactly when the
\* serialization of rangeMap differs from the document last committed to the
\* namespace (the empty object before any write).
C8_RangeWriteIffChanged ==
    [][\A a \in cfManagers :
          CommitRan(a) =>
              ((\E c \in 1..Len(StepCalls(a)) : IsRangeWrite(StepCalls(a)[c]))
                  <=> jsonMarshal(manager'[a].ActionByIPRange) # CommittedDoc(namespace[a]))]_vars

\* C9: a fault-free cycle that carries the new decisions of the fault-free
\* cycle before it once more leaves the KV namespace as that cycle left it.
C9_SameBatchTwice ==
    \A a \in cfManagers :
        (/\ CycleOver(a)
         /\ observed.kind = "again"
         /\ CycleFaultFree)
        => namespace[a] = cycleStart[a].namespace

AbsentAtStart(snapshot, d) ==
    /\ d.value \notin DOMAIN snapshot.manager.KVPairByDecisionValue
    /\ d.value \notin DOMAIN snapshot.manager.ActionByIPRange
    /\ d.value \notin DOMAIN snapshot.namespace
    /\ d.value \notin DOMAIN RemoteRanges(snapshot.namespace)

\* C10: a fault-free cycle new = [D], D's value absent from the starting
\* state, followed by a fault-free cycle deleted = [D], ends with stringMap,
\* rangeMap, the per-key KV entries and the ranges of IP_RANGES as they were
\* before the first of the two cycles.
C10_AddThenDeleteRestores ==
    \A a \in cfManagers :
        (/\ CycleOver(a)
         /\ observed.kind = "undo"
         /\ CycleFaultFree
         /\ AbsentAtStart(observed.base[a], observed.new[1]))
        => /\ Index(a) = observed.base[a].manager.KVPairByDecisionValue
           /\ Ranges(a) = observed.base[a].manager.ActionByIPRange
           /\ KeyEntries(namespace[a]) = KeyEntries(observed.base[a].namespace)
           /\ RemoteRanges(namespace[a]) = RemoteRanges(observed.base[a].namespace)


\* the running cycle carries no decision at all
EmptyCycle(a) == pc[a] # Idle /\ streamDecision = EmptyStream

\* C11: a cycle whose new and deleted lists are both empty issues no
\* Cloudflare API call and leaves the index, the range map and the KV
\* namespace as they were at its start, whatever happened in earlier cycles
\* (successful or failed).
C11_EmptyCycleIsNoOp ==
    \A a \in cfManagers :
        EmptyCycle(a)
        => /\ apiCalls[a] = <<>>
           /\ Index(a) = cycleStart[a].manager.KVPairByDecisionValue
           /\ Ranges(a) = cycleStart[a].manager.ActionByIPRange
           /\ namespace[a] = cycleStart[a].namespace


BothStepsRan(a) == stepsRun[a] = <<"deleted", "new">>

\* C12: when a step fails for one account in a cycle, the goroutines of the
\* other accounts still run both steps to the end, the stream loop does not
\* return, and the next stream item is dispatched to every account, the one
\* that failed included.
C12_FailureIsIsolated ==
    /\ \A a \in cfManagers : pc[a] # Returned
    /\ \A a \in cfManagers, b \in cfManagers :
          (cycleErr[a] /\ CycleOver(a) /\ CycleOver(b) /\ ~cycleErr[b])
          => BothStepsRan(b)
    /\ \A a \in cfManagers :
          (prevErr[a] /\ ~AllIdle)
          => /\ \A b \in cfManagers : pc[b] \in 1..Done
             /\ (\A b \in cfManagers : CycleOver(b))
                => \A b \in cfManagers : stepsRun[b] # <<>>

C12_Witness ==
    \E a \in cfManagers, b \in cfManagers :
        /\ a # b
        /\ prevErr[a] /\ ~prevErr[b]
        /\ CycleOver(a) /\ CycleOver(b)
        /\ BothStepsRan(a) /\ BothStepsRan(b)
        /\ apiCalls[a] # <<>> /\ apiCalls[b] # <<>>


\* positions of the IP_RANGES writes among the calls of the running cycle
RangeWrites(a) == {i \in 1..Len(apiCalls[a]) : IsRangeWrite(apiCalls[a][i])}

\* C13: within one cycle of one account IP_RANGES is written at most once,
\* and only after both the deletions and the additions of the cycle have
\* been applied: the write is the last call of the cycle and is issued by
\* the additions step.
C13_OneRangeWritePerCycle ==
    \A a \in cfManagers :
        /\ Cardinality(RangeWrites(a)) <= 1
        /\ \A i \in RangeWrites(a) :
              NewStepRan(a) /\ i = Len(apiCalls[a])


\* the batching loop has ended
BulkLoopOver == ~LoopContinues(bulkBegin, Len(staged))

RECURSIVE Flatten(_)
Flatten(calls) ==
    IF calls = <<>> THEN <<>> ELSE Head(calls) \o Flatten(Tail(calls))

\* C14: a staged list of n entries is sent in exactly ceil(n / 10000) bulk
\* calls, each of at least one and at most 10000 entries, which together
\* carry every staged entry exactly once; 10000 entries take one call and
\* 10001 take two.
C14_BulkCallsChunked ==
    BulkLoopOver
    => LET n == Len(staged)
       IN  /\ Len(bulkCalls) = (n + BulkLimit - 1) \div BulkLimit
           /\ \A b \in 1..Len(bulkCalls) :
                 /\ Len(bulkCalls[b]) \in 1..BulkLimit
                 /\ bulkCalls[b] = BatchOf(staged, b)
           /\ Flatten(bulkCalls) = staged
           /\ n = BulkLimit => Len(bulkCalls) = 1
           /\ n = BulkLimit + 1 => Len(bulkCalls) = 2

C14_Witness ==
    /\ BulkLoopOver
    /\ Len(staged) = BulkLimit + 1
    /\ Len(bulkCalls) = 2
    /\ Len(bulkCalls[1]) = BulkLimit
    /\ bulkCalls[2] = <<BulkLimit + 1>>


\* the run phase has been entered and left
RunPhaseLeft == exec.phase \in {"teardown", "returned", "fatal"} /\ exec.exit # "startup"

FailedCalls(calls) == {i \in 1..Len(calls) : calls[i].res = "error"}

MadeCall(calls, api, res) ==
    \E i \in 1..Len(calls) : calls[i] = Call(api, res)

\* C15: however the run phase ends (a signal, the upstream stream stopping,
\* an error in the run loop), CleanUpExistingWorkers(false) is started for
\* every account, after the run context was cancelled and on a context that
\* is not cancelled; a teardown returns an error only when one of its own
\* calls failed, and a teardown none of whose calls failed runs through all
\* its steps and returns nil, whatever the teardown of another account did.
C15_CleanUpOnEveryExit ==
    RunPhaseLeft
    => /\ ~CtxLive("run")
       /\ \A a \in cfManagers :
             /\ task[a].op \in {"teardown", "returned"}
             /\ ~task[a].start
             /\ CtxLive(task[a].Ctx)
             /\ exec.phase # "teardown" => task[a].cleanUpErr # "none"
             /\ task[a].cleanUpErr = "error" => FailedCalls(trail[a]) # {}
             /\ (task[a].op = "returned" /\ FailedCalls(trail[a]) = {})
                => /\ task[a].cleanUpErr = "nil"
                   /\ MadeCall(trail[a], "ListTurnstileWidgets", "ok")
                   /\ MadeCall(trail[a], "ListWorkersKVNamespaces", "ok")

C15_Witness ==
    \E a \in cfManagers, b \in cfManagers :
        /\ exec.phase = "teardown"
        /\ exec.exit = "signal"
        /\ task[a].cleanUpErr = "error"
        /\ task[b].cleanUpErr = "nil"
        /\ MadeCall(trail[b], "DeleteWorker", "ok")
        /\ MadeCall(trail[b], "DeleteWorkersKVNamespace", "ok")

\* the account's start-up goroutine has ended well: stale resources torn
\* down, infrastructure deployed
StartedUp(a) == task[a].deployErr = "nil"

\* the run phase is under way for some account
RunPhaseEntered ==
    \/ \E a \in cfManagers : task[a].turnstile # "none"
    \/ ~AllIdle
    \/ exec.looping
    \/ exec.phase \in {"run", "teardown", "fatal"}

\* C16: at start-up an account is provisioned only after its own teardown
\* returned nil; no Turnstile handler and no decision processing starts
\* before every account has ended teardown and provisioning without error;
\* and when the teardown or the provisioning of an account fails, Execute
\* returns without entering the run phase.
C16_StartupBeforeRun ==
    /\ \A a \in cfManagers :
          (task[a].start /\ (task[a].op = "deploy" \/ task[a].deployErr # "none"))
          => task[a].cleanUpErr = "nil"
    /\ RunPhaseEntered => \A a \in cfManagers : StartedUp(a)
    /\ (\E a \in cfManagers : task[a].start /\ task[a].ret = "error")
       => /\ exec.phase \in {"startup", "returned"}
          /\ ~RunPhaseEntered
    /\ exec.exit = "startup" => exec.phase \in {"startup", "returned"}

C16_Witness ==
    \E a \in cfManagers, b \in cfManagers :
        /\ exec.phase = "returned"
        /\ exec.exit = "startup"
        /\ task[a].cleanUpErr = "nil" /\ task[a].deployErr = "error"
        /\ StartedUp(b)
        /\ ~RunPhaseEntered


\* nothing the bouncer deploys in the configured zones is left
TornDown(c) ==
    /\ \A w \in c.widgets : w.name # WidgetName
    /\ \A r \in c.routes : ~(r.zone \in Zones /\ r.script = ScriptName)
    /\ ScriptName \notin c.scripts
    /\ KVNameSpaceName \notin c.namespaces

\* CleanUpExistingWorkers has just returned nil: at start-up DeployInfra
\* has not made its first call, at shutdown the goroutine has ended
CleanUpJustReturnedNil(a) ==
    /\ task[a].cleanUpErr = "nil"
    /\ \/ task[a].start /\ task[a].op = "deploy" /\ task[a].step = 1
       \/ ~task[a].start /\ task[a].op = "returned"

\* C17: when CleanUpExistingWorkers returns nil the account has no widget
\* with the bouncer's widget name, no route of a configured zone bound to
\* the bouncer's script, no script with the bouncer's script name and no KV
\* namespace with the bouncer's title, whatever the account held before.
C17_CleanUpLeavesNothing ==
    \A a \in cfManagers : CleanUpJustReturnedNil(a) => TornDown(cloud[a])


\* the place of a teardown call in the order widgets, routes, script,
\* KV namespaces, metrics databases
TeardownRank(api) ==
    CASE api \in {"ListTurnstileWidgets", "DeleteTurnstileWidget"} -> 1
      [] api \in {"ListWorkerRoutes", "DeleteWorkerRoute"} -> 2
      [] api = "DeleteWorker" -> 3
      [] api \in {"ListWorkersKVNamespaces", "DeleteWorkersKVNamespace"} -> 4
      [] api \in {"ListD1Databases", "DeleteD1Database"} -> 5
      [] OTHER -> 0

IsTeardownCall(c) == TeardownRank(c.api) > 0

\* the calls CleanUpExistingWorkers has made in its current or last run
TeardownCalls(a) == SelectSeq(trail[a], IsTeardownCall)

BoundRoutes(c) == {r \in c.routes : r.zone \in Zones /\ r.script = ScriptName}

\* C18: the calls of CleanUpExistingWorkers come in the order widgets,
\* routes of every configured zone, script, KV namespaces, metrics
\* databases; once the script has been deleted no route of a configured zone
\* is bound to it, and once a KV namespace has been deleted the script is
\* gone.
C18_TeardownOrder ==
    \A a \in cfManagers :
        LET calls == TeardownCalls(a)
        IN  /\ \A i \in 1..Len(calls), j \in 1..Len(calls) :
                  i < j => TeardownRank(calls[i].api) <= TeardownRank(calls[j].api)
            /\ (task[a].op = "teardown" /\ MadeCall(calls, "DeleteWorker", "ok"))
               => BoundRoutes(cloud[a]) = {}
            /\ (task[a].op = "teardown" /\ MadeCall(calls, "DeleteWorkersKVNamespace", "ok"))
               => /\ ScriptName \notin cloud[a].scripts
                  /\ BoundRoutes(cloud[a]) = {}

C18_Witness ==
    \E a \in cfManagers :
        /\ task[a].cleanUpErr = "nil"
        /\ TeardownCalls(a) =
              <<Call("ListTurnstileWidgets", "ok"), Call("DeleteTurnstileWidget", "ok"),
                Call("ListWorkerRoutes", "ok"), Call("DeleteWorkerRoute", "ok"),
                Call("ListWorkerRoutes", "ok"), Call("DeleteWorkerRoute", "ok"),
                Call("DeleteWorker", "ok"),
                Call("ListWorkersKVNamespaces", "ok"), Call("DeleteWorkersKVNamespace", "ok"),
                Call("ListD1Databases", "ok"), Call("DeleteD1Database", "ok")>>


\* CleanUpExistingWorkers has returned and its calls are on record
TeardownOver(a) == task[a].cleanUpErr # "none"

\* the database step of the teardown is due
DatabaseStepDue(a) == task[a].start \/ task[a].hasD1Access

\* the failed calls of the teardown, but for a failed listing of the
\* databases at start-up
ReportedFailures(a) ==
    LET calls == TeardownCalls(a)
    IN  {i \in FailedCalls(calls) :
            ~(task[a].start /\ calls[i].api = "ListD1Databases")}

RemainingStepsRan(a) ==
    LET calls == TeardownCalls(a)
    IN  MadeCall(calls, "DeleteWorker", "notfound")
        => /\ MadeCall(calls, "ListWorkersKVNamespaces", "ok")
           /\ DatabaseStepDue(a)
              => \E i \in 1..Len(calls) : calls[i].api = "ListD1Databases"

DeployRank(api) ==
    CASE api = "CreateWorkersKVNamespace" -> 1
      [] api = "CreateD1Database" -> 2
      [] api = "QueryD1Database" -> 3
      [] api \in {"ReadFile", "WriteWorkersKVEntries"} -> 4
      [] api = "UploadWorker" -> 5
      [] api = "CreateWorkerRoute" -> 6
      [] OTHER -> 0

IsDeployCall(c) == DeployRank(c.api) > 0

\* the calls DeployInfra has made
DeployCalls(a) == SelectSeq(trail[a], IsDeployCall)

\* C20: the calls of DeployInfra come in the order KV namespace creation,
\* metrics database creation, table creation (only after the database was
\* created), BAN_TEMPLATE write, script upload, route binding, one call per
\* step but for the routes; a step starts only when every step before it
\* has returned without error, except that a failed database creation is
\* followed by the BAN_TEMPLATE write, and provisioning can then end without
\* error and without a metrics database.
C20_DeployOrder ==
    \A a \in cfManagers :
        LET calls == DeployCalls(a)
            n     == Len(calls)
        IN  /\ \A i \in 1..n, j \in 1..n :
                  i < j => \/ DeployRank(calls[i].api) < DeployRank(calls[j].api)
                           \/ /\ calls[i].api = "CreateWorkerRoute"
                              /\ calls[j].api = "CreateWorkerRoute"
            /\ n > 0 => calls[1].api = "CreateWorkersKVNamespace"
            /\ \A i \in 1..n :
                  calls[i].api = "QueryD1Database"
                  => i > 1 /\ calls[i - 1] = Call("CreateD1Database", "ok")
            /\ \A i \in 1..n, j \in 1..n :
                  (i < j /\ calls[i].res = "error")
                  => \/ calls[i].api = "CreateD1Database"
                     \/ calls[j].api = calls[i].api
            /\ \A i \in 1..n :
                  (calls[i].res = "error" /\ calls[i].api # "CreateD1Database")
                  => task[a].deployErr # "nil"
            /\ (n > 0 /\ calls[n] = Call("CreateD1Database", "error"))
               => task[a].op = "deploy" /\ ~task[a].hasD1Access
            /\ (task[a].start /\ task[a].deployErr = "nil")
               => /\ \A i \in 1..n :
                        calls[i].res = "error" => calls[i].api = "CreateD1Database"
                  /\ Cardinality({i \in 1..n : calls[i].api = "CreateWorkerRoute"})
                        = Len(ZoneConfigs)
                  /\ MadeCall(calls, "UploadWorker", "ok")
                  /\ MadeCall(calls, "WriteWorkersKVEntries", "ok")
                  /\ task[a].hasD1Access <=> MadeCall(calls, "QueryD1Database", "ok")

C20_Witness ==
    \E a \in cfManagers :
        /\ task[a].start
        /\ task[a].deployErr = "nil"
        /\ ~task[a].hasD1Access
        /\ D1DBName \notin cloud[a].dbs
        /\ DeployCalls(a) =
              <<Call("CreateWorkersKVNamespace", "ok"), Call("CreateD1Database", "error"),
                Call("WriteWorkersKVEntries", "ok"), Call("UploadWorker", "ok"),
                Call("CreateWorkerRoute", "ok"), Call("CreateWorkerRoute", "ok")>>

\* the run phase ended because its context was cancelled: the stream loop
\* left through `case <-ctx.Done()` after a signal or after the upstream
\* stream had stopped
EndedByCancellation ==
    /\ exec.ret = "context done"
    /\ exec.exit \in {"signal", "crowdsec bouncer stopped"}

\* C21: when the run phase ends because of cancellation, Execute returns no
\* error (context.Canceled is not handed to main as an error) and the
\* process does not leave through log.Fatal.
C21_CancellationIsNotAnError ==
    EndedByCancellation
    => /\ ExecuteErr(exec.ret) = "nil"
       /\ exec.phase # "fatal"
       /\ exec.main # "fatal"

\* the member of a published TURNSTILE_CONFIG that belongs to a zone
PublishedFor(doc, z) ==
    LET found == SelectSeq(doc, LAMBDA e : e.domain = z)
    IN  IF Len(found) = 1
        THEN WidgetTokenCfg(found[1].site_key, found[1].secret)
        ELSE WidgetTokenCfg("", 0)

\* the rotator of a zone completes a tick: the publication succeeded
TickCompletes(z) ==
    /\ rotator[z].pc = "store"
    /\ rotator'[z].pc = "select"

\* C22: when a tick of zone Z succeeds, the site key held in memory and
\* published for Z is the one given at the creation of Z's widget, and the
\* secret held and published for Z is the one the rotation call of this
\* tick returned, which is Cloudflare's secret for the widget and differs
\* from the secret held before the tick.
C22_RotationKeepsSiteKey ==
    [][\A z \in Zones :
          TickCompletes(z)
          => LET returned == rotator[z].widgetTokenCfg
             IN  /\ widgetTokenCfgByDomain'[z] = returned
                 /\ PublishedFor(turnstileConfig', z) = returned
                 /\ returned.SiteKey = CreatedSiteKey(z)
                 /\ returned = turnstileWidgets[z]
                 /\ returned.Secret # widgetTokenCfgByDomain[z].Secret]_vars

\* both zones have completed ticks, one of them twice
C22_Witness ==
    /\ \A z \in Zones :
          /\ rotator[z].pc = "select"
          /\ PublishedFor(turnstileConfig, z).Secret > 0
    /\ \E z \in Zones : PublishedFor(turnstileConfig, z).Secret = MaxRotations

AllRotatorsReturned == \A z \in Zones : rotator[z].pc = "returned"

\* C23: once the run context is cancelled, every rotator of the account
\* returns, wherever in its tick it was and whatever the other rotators
\* did before.
C23_RotatorsTerminate == ("run" \in ctxs.cancelled) ~> AllRotatorsReturned

\* only the preserved keys and RESET = "false" are left
Purged(store) ==
    /\ DOMAIN store \subseteq PreservedKeys \cup {ResetKey}
    /\ KvGet(store, ResetKey) = "false"

\* C24: when a run of the sync worker finds RESET = "true" and its purge
\* completes, then right after the purge the namespace holds no key but
\* BAN_TEMPLATE, TURNSTILE_CONFIG and RESET, and RESET holds "false".
C24_ResetLeavesPreservedKeys ==
    (sync.phase = "fetch" /\ sync.honoured) => Purged(kvNamespace)

\* a purge has just completed on a namespace that had been warmed up
C24_Witness ==
    /\ sync.phase = "fetch"
    /\ sync.honoured
    /\ sync.warmed
    /\ DOMAIN kvNamespace = PreservedKeys \cup {ResetKey}

\* a run of the deployed worker ends without error on an answer 204
ClearedOn204 ==
    /\ sync.version = "dist"
    /\ sync.phase = "fetch"
    /\ sync'.phase = "idle"
    /\ sync'.status = 204
    /\ sync'.outcome # "error"

C26_WarmedUpStays ==
    [][sync.warmed
       => /\ KvGet(kvNamespace', WarmedUpKey) = "true"
          /\ sync'.startup # "true"]_vars

\* C27: when a run of the sync worker (either version) ends without error,
\* every value named by a deleted and by a new decision of the run is in
\* the namespace with the type of the new decision: a string value under
\* its key, a range in IP_RANGES.
C27_DeleteThenAddKeepsNew ==
    [][(sync.phase = "fetch" /\ sync'.outcome = "ok")
       => \A i \in 1..Len(sync'.decisions.new) :
             LET d == sync'.decisions.new[i]
             IN  (\E j \in 1..Len(sync'.decisions.deleted) :
                     /\ sync'.decisions.deleted[j].scope = d.scope
                     /\ sync'.decisions.deleted[j].value = d.value)
                 => IF d.scope = "range"
                    THEN ObjGet(getIpRanges(kvNamespace'), d.value) = d.type
                    ELSE KvGet(kvNamespace', StringKey(d)) = d.type]_vars



\* the scopes and the letter case of the decisions a normalizer hands on
HandedOnAreSupported ==
    \A i \in 1..Len(normalizer.handed) :
        /\ normalizer.handed[i].scope \in SupportedScopes
        /\ IsLower(normalizer.handed[i].value)
        /\ IsLower(normalizer.handed[i].scope)
        /\ IsLower(normalizer.handed[i].type)

\* the keys that the decisions of a supported scope in the batch may produce
SupportedKeys ==
    { ToLower(normalizer.raw[i].value) :
        i \in { j \in 1..Len(normalizer.raw) :
                  ToLower(normalizer.raw[j].scope) \in SupportedScopes } }

\* C28: every decision that a normalizer hands on for reconciliation has a
\* scope among ip, range, as, country and a lower-case value, scope and
\* type, and a decision of any other scope is never applied to the index or
\* to the KV namespace.
C28_NormalizerAccepts ==
    /\ normalizer.stage \in {"handed", "applied"} => HandedOnAreSupported
    /\ normalizer.stage = "applied" =>
          /\ normalizer.index \subseteq SupportedKeys
          /\ normalizer.kv \subseteq SupportedKeys


\* what the statement asks of one zone of a configuration
ZoneIsConsistent(zone) ==
    /\ stringSliceContains(zone.Actions, zone.DefaultAction)
    /\ stringSliceContains(zone.Actions, "captcha") => zone.Turnstile.Enabled

\* C29: in every configuration that NewConfig accepts, each zone's
\* default_action is a member of the zone's actions list, and a zone whose
\* actions include captcha has Turnstile enabled.
C29_AcceptedZonesAreConsistent ==
    config.stage = "accepted" =>
        \A i \in 1..Len(config.returned.ZoneConfigs) :
            ZoneIsConsistent(config.returned.ZoneConfigs[i])


BulkReads == SelectSeq(reader.requests, LAMBDA r : r.kind = "bulk")

\* C30: for n keys to read, every version of batchGetStringBasedDecisions
\* issues exactly ceil(n / 100) requests of the bulk-read endpoint, each
\* carrying at most 100 keys: one request for 100 keys, two for 101.
C30_BulkReadsOfHundred ==
    reader.stage = "returned" =>
        /\ Len(BulkReads) = (reader.keys + 99) \div 100
        /\ \A k \in 1..Len(reader.requests) :
              /\ reader.requests[k].kind = "bulk"
              /\ reader.requests[k].keys <= 100


\* a bulk call on the string keys: any call but the write of the ranges
IsStringBulkCall(call) ==
    \A i \in 1..Len(call.entries) : call.entries[i].Key # IpRangeKeyName

\* the step that account a takes has issued a string bulk call that failed
SubBatchFails(a) ==
    \E k \in (Len(apiCalls[a]) + 1)..Len(apiCalls'[a]) :
        /\ ~apiCalls'[a][k].ok
        /\ IsStringBulkCall(apiCalls'[a][k])

\* C31: when a sub-batch of the bulk delete of ProcessDeletedDecisions, or
\* of the bulk write of ProcessNewDecisions, fails, the operation returns an
\* error and the index of string keys is exactly what it was before the
\* operation.
C31_FailedBulkKeepsIndex ==
    [][\A a \in cfManagers :
          SubBatchFails(a) =>
              /\ cycleErr'[a]
              /\ manager'[a].KVPairByDecisionValue = manager[a].KVPairByDecisionValue]_vars

\* a failed bulk delete of a key that the index still holds, and a failed
\* bulk write of a key that the index does not hold
C31_Witness ==
    \E a \in cfManagers :
        /\ cycleErr[a]
        /\ \E k \in 1..Len(apiCalls[a]) :
              /\ ~apiCalls[a][k].ok
              /\ IsStringBulkCall(apiCalls[a][k])
              /\ apiCalls[a][k].entries # <<>>
              /\ manager[a].KVPairByDecisionValue # << >>
              /\ \/ /\ apiCalls[a][k].op = "delete"
                    /\ apiCalls[a][k].entries[1].Key \in DOMAIN manager[a].KVPairByDecisionValue
                 \/ /\ apiCalls[a][k].op = "write"
                    /\ apiCalls[a][k].entries[1].Key \notin DOMAIN manager[a].KVPairByDecisionValue


\* C32: when the bulk write or the bulk delete of a cycle fails for an
\* account, the recorded ranges and the cached content last written to
\* IP_RANGES are what they were before the failing operation, as the index
\* of string keys is.
C32_FailedBulkKeepsRanges ==
    [][\A a \in cfManagers :
          SubBatchFails(a) =>
              /\ manager'[a].ActionByIPRange = manager[a].ActionByIPRange
              /\ manager'[a].ipRangeKVPair = manager[a].ipRangeKVPair]_vars


EntryOf(map, k) == IF k \in DOMAIN map THEN map[k] ELSE "absent"

\* the list that the step taken by account a works on
BatchOfStep(a) ==
    IF stepsRun'[a][Len(stepsRun'[a])] = "deleted"
    THEN streamDecision.deleted ELSE streamDecision.new

NamedBy(batch) == {batch[i].value : i \in 1..Len(batch)}

\* C33: ProcessDeletedDecisions and ProcessNewDecisions change only the
\* entries whose value is named by a decision of the batch: every other
\* entry of the index of string keys and of the ranges keeps its value and
\* its type, whatever the index holds, also when several values carry the
\* same type.
C33_OnlyNamedEntriesChange ==
    [][\A a \in cfManagers :
          Len(stepsRun'[a]) = Len(stepsRun[a]) + 1 =>
              \A k \in (FrameValues \cup RangeValues) \ NamedBy(BatchOfStep(a)) :
                  /\ EntryOf(manager'[a].KVPairByDecisionValue, k)
                        = EntryOf(manager[a].KVPairByDecisionValue, k)
                  /\ EntryOf(manager'[a].ActionByIPRange, k)
                        = EntryOf(manager[a].ActionByIPRange, k)]_vars

\* two addresses carried the same type, a step changed the entry of the one
\* that the batch names, and the other is still there
C33_Witness ==
    \E a \in cfManagers, t \in Types :
        /\ pc[a] = Done
        /\ cycleStart[a].manager.KVPairByDecisionValue = [v \in FrameValues |-> t]
        /\ NamedBy(streamDecision.deleted) \cup NamedBy(streamDecision.new) = {"1.2.3.4"}
        /\ EntryOf(manager[a].KVPairByDecisionValue, "1.2.3.4") # t
        /\ EntryOf(manager[a].KVPairByDecisionValue, "5.6.7.8") = t


\* no call of any rotator has failed so far
AllCallsSucceeded == \A z \in Zones : rotator[z].err = "none"

\* the rotator of a zone is not between its rotation call and the
\* publication of what the call returned
NoRotationInFlight(z) == rotator[z].pc \in {"select", "lock", "rotate"}

\* C34: with several rotating zones in one account, after any interleaving
\* of their ticks in which every API call succeeds, the TURNSTILE_CONFIG
\* document last written equals the map held in memory: it has one member
\* for every domain, with the site key and the latest secret of the
\* domain, so no zone's rotation is overwritten by a stale copy written for
\* another zone.
C34_PublishedConfigIsCurrent ==
    AllCallsSucceeded =>
        /\ Len(turnstileConfig) = Cardinality(Zones)
        /\ \A z \in Zones :
              /\ PublishedFor(turnstileConfig, z) = widgetTokenCfgByDomain[z]
              /\ NoRotationInFlight(z) =>
                    PublishedFor(turnstileConfig, z) = turnstileWidgets[z]

\* one zone has published its last secret and waits for a tick; the other
\* has published before and holds a new secret that it is about to publish
C34_Witness ==
    /\ AllCallsSucceeded
    /\ \E z \in Zones, other \in Zones :
          /\ z # other
          /\ rotator[z].pc = "select"
          /\ PublishedFor(turnstileConfig, z).Secret = MaxRotations
          /\ PublishedFor(turnstileConfig, other).Secret > 0
          /\ rotator[other].pc = "store"


\* a rotation call or a publication of some zone has returned an error
SomeTickFailed == \E z \in Zones : rotator[z].err = "error"

\* C35: when a tick fails for some zone, in the rotation call or in the
\* publication of TURNSTILE_CONFIG, g.Wait() comes back and HandleTurnstile
\* returns the error to the orchestrator: every rotator of the account
\* returns, however many zones rotate.
C35_TickErrorIsReturned == SomeTickFailed ~> AllRotatorsReturned


\* HandleTurnstile of account a has created every widget and its write of
\* TURNSTILE_CONFIG fails
FirstPublicationFails(a) ==
    /\ task[a].turnstile = "starting"
    /\ task'[a].turnstile = "stopped"

\* C36: when the write of TURNSTILE_CONFIG that follows the creation of the
\* widgets fails, HandleTurnstile returns an error to the errgroup of the
\* orchestrator, which cancels the run context.
C36_FirstPublicationErrorIsReturned ==
    [][\A a \in cfManagers :
          FirstPublicationFails(a) => ~CtxLive("run")']_vars


\* a run that asked for the full snapshot ends with an error
FirstSyncFails ==
    /\ sync.phase = "fetch"
    /\ sync'.phase = "idle"
    /\ sync'.startup = "true"
    /\ sync'.outcome = "error"

\* C37: in both versions of the scheduled handler WARMED_UP is written only
\* after the sync of the first full snapshot to the KV has completed: when
\* a step of that first sync fails, WARMED_UP is still absent, so that the
\* next run asks for the full snapshot again.
C37_WarmedOnlyAfterFirstSync ==
    [][FirstSyncFails => Falsy(KvGet(kvNamespace', WarmedUpKey))]_vars


\* the purge that RESET = "true" triggered at the start of a run throws
PurgeFails ==
    /\ sync.phase = "idle"
    /\ KvGet(kvNamespace, ResetKey) = "true"
    /\ sync'.outcome = "error"

\* RESET is put to "false"
ResetLowered ==
    /\ KvGet(kvNamespace, ResetKey) # "false"
    /\ KvGet(kvNamespace', ResetKey) = "false"

\* C38: when the purge triggered by RESET = "true" fails part-way, in the
\* listing of the keys or in a bulk delete, RESET still holds "true" and the
\* handler is back at its start, so that the next run attempts the purge
\* again; RESET becomes "false" only once every key that is not preserved
\* has been deleted.
C38_FailedPurgeKeepsReset ==
    [][/\ PurgeFails => /\ KvGet(kvNamespace', ResetKey) = "true"
                        /\ sync'.phase = "idle"
       /\ ResetLowered => KeysToDelete(kvNamespace') = {}]_vars

\* a purge failed with decisions still in the namespace, RESET is "true"
C38_Witness ==
    /\ sync.version = "dist"
    /\ sync.phase = "idle"
    /\ sync.outcome = "error"
    /\ sync.startup = "none"
    /\ KvGet(kvNamespace, ResetKey) = "true"
    /\ KeysToDelete(kvNamespace) \ {WarmedUpKey} # {}

\* the CIDR -> type map that an object of ranges stands for
RangeMapOf(o) == [k \in ObjKeys(o) |-> ObjGet(o, k)]

\* C39: hasRangesChanged returns true exactly when the two maps from CIDR
\* to type differ (in their keys, or in the type of a shared key), and
\* false when they are equal, whatever the order in which the keys were
\* inserted.
C39_ChangedIffMapsDiffer ==
    compared.stage = "returned" =>
        (compared.changed <=>
            RangeMapOf(compared.oldRanges) # RangeMapOf(compared.newRanges))

\* hasRangesChanged has returned false for two objects that hold the same
\* two ranges, inserted in opposite orders
C39_Witness ==
    /\ compared.stage = "returned"
    /\ Len(compared.oldRanges) = 2
    /\ compared.oldRanges # compared.newRanges
    /\ RangeMapOf(compared.oldRanges) = RangeMapOf(compared.newRanges)
    /\ ~compared.changed

\* C40: after every cycle, the sum of the gauge active_decisions over the
\* label sets of an account equals the number of entries of the account's
\* index plus the number of its ranges, whatever the batches held (the same
\* decision more than once) and whether or not a bulk call failed.
C40_GaugeCountsEntries ==
    \A a \in cfManagers :
        CycleOver(a) => TotalActiveDecisions[a] = ActiveEntries(manager[a])

==============================================================================
